---- MODULE Spec2Model ----
(***************************************************************************)
(* Model of the task query pipeline of amplenote-cache-mcp                 *)
(* (src/app/tasks.py, TasksService.query_tasks and its parsers).           *)
(*                                                                         *)
(* Conventions.  An optional Python/SQL value (None, NULL) is the empty    *)
(* tuple <<>> and a present value v is the one-element tuple <<v>>.        *)
(* A Python string whose characters matter (flags, has_flags) is the       *)
(* sequence of its one-character strings: "IU" is <<"I", "U">>.            *)
(* Free text (node text, link targets, content_search) is the sequence of  *)
(* its indivisible pieces, so that concatenation and substring are those   *)
(* of sequences.  Floats and epoch seconds are small integers.             *)
(***************************************************************************)
EXTENDS Integers, Sequences, FiniteSets, TLC

\* the tasks table, the caller's position, the call in progress and its value
VARIABLES store, pc, query, result
\* a TaskContent value and what to_plain_text returned for it, first and second call
VARIABLES document, plain, again
\* the notes tables, the database file, the connections opened and still known,
\* the statements executed by the call, the exception the call ended with
VARIABLES notes, db_file, connections, statements, error
\* the calls in progress when several callers use the services at once
VARIABLES calls

flatten_vars == <<document, plain, again>>
service_vars == <<notes, db_file, connections, statements, error>>
vars == <<store, pc, query, result, flatten_vars, service_vars, calls>>

None == <<>>
Some(v) == <<v>>
IsNone(x) == Len(x) = 0
IsSome(x) == Len(x) = 1
Val(x) == x[1]

\* no document is being flattened
FlattenAtRest == document = <<>> /\ plain = None /\ again = None

\* the service layer is not in use: no notes, no connection, no statement, no exception
ServiceAtRest ==
  /\ notes = [rows |-> <<>>, note_references |-> <<>>]
  /\ db_file = "amplenote"
  /\ connections = <<>>
  /\ statements = 0
  /\ error = None

\* one caller at a time: no concurrent call is in progress
CallsAtRest == calls = <<>>

Min(a, b) == IF a < b THEN a ELSE b
Max(a, b) == IF a < b THEN b ELSE a

(***************************************************************************)
(* Bounds of the model.                                                    *)
(***************************************************************************)
\* most rows a store holds
MaxTasks == 3
\* largest limit a modelled call passes
MaxLimit == 2
\* largest offset a modelled call passes
MaxOffset == 2
\* largest range bound a modelled call passes (bounds are 0..MaxBound)
MaxBound == 1
\* largest page size k of the pagination law
MaxK == 2

(***************************************************************************)
(* TaskQuery: the defaults of the pydantic model.                          *)
(***************************************************************************)
DefaultLimit == 20
LimitFloor == 1
LimitCeiling == 1000

SortKeys == {"due", "points", "created", "completed", "victory_value", "streak_count"}
FlagsFilters == {"urgent", "important", "both", "none", "any"}

TaskQuery ==
  [ content_search |-> None,
    include_deleted |-> FALSE,
    include_done |-> FALSE,
    has_due_date |-> None,
    due_before |-> None,
    due_after |-> None,
    min_points |-> None,
    max_points |-> None,
    min_victory_value |-> None,
    max_victory_value |-> None,
    min_streak_count |-> None,
    max_streak_count |-> None,
    created_after |-> None,
    created_before |-> None,
    completed_after |-> None,
    completed_before |-> None,
    start_after |-> None,
    start_before |-> None,
    flags_filter |-> None,
    has_flags |-> None,
    has_duration |-> None,
    duration_equals |-> None,
    is_recurring |-> None,
    has_references |-> None,
    references_uuid |-> None,
    sort_by |-> None,
    sort_descending |-> FALSE,
    limit |-> DefaultLimit,
    offset |-> 0 ]

\* Field(..., ge=1, le=1000) on limit and Field(..., ge=0) on offset
\* variant of ValidPagination: limit without the le=1000 constraint
ValidPagination_NoCeiling(q) ==
  /\ q.limit >= LimitFloor
  /\ q.offset >= 0

ValidPagination(q) ==
  /\ q.limit >= LimitFloor
  /\ q.limit <= LimitCeiling
  /\ q.offset >= 0

(***************************************************************************)
(* TaskAttrs: the typed attribute bag, every field optional.               *)
(***************************************************************************)
TaskAttrs ==
  [ created_at |-> None,
    completed_at |-> None,
    start_at |-> None,
    duration |-> None,
    repeat |-> None,
    flags |-> None,
    points |-> None,
    victory_value |-> None,
    streak_count |-> None,
    references |-> None ]

(***************************************************************************)
(* The attrs column.  A payload is NULL, the empty string, text that is    *)
(* not JSON, a JSON value that is not an object, a JSON object with a      *)
(* wrong-typed known key, or a JSON object of optional camelCase keys.     *)
(***************************************************************************)
AttrsObject ==
  [ createdAt |-> None,
    completedAt |-> None,
    startAt |-> None,
    duration |-> None,
    repeat |-> None,
    flags |-> None,
    points |-> None,
    victoryValue |-> None,
    streakCount |-> None,
    references |-> None ]

PayloadNull == [kind |-> "null"]
PayloadEmpty == [kind |-> "empty"]
PayloadInvalidJson == [kind |-> "invalid_json"]
PayloadNonObject == [kind |-> "non_object"]
PayloadWrongType == [kind |-> "wrong_type"]
PayloadObject(o) == [kind |-> "object", obj |-> o]

\* what a parser call ends with: a value (None included) or an exception
Returned(v) == [raised |-> FALSE, value |-> v]
Raised(e) == [raised |-> TRUE, error |-> e]

(***************************************************************************)
(* An attrs payload given member by member: a JSON object as a function    *)
(* from its keys to JSON values.  A JSON string is the sequence of its     *)
(* pieces (single characters where they matter); a JSON number is an       *)
(* integer or a float of integral value.                                   *)
(***************************************************************************)
JsonNull == [t |-> "null", num |-> 0, str |-> <<>>, items |-> <<>>]
JsonInt(n) == [JsonNull EXCEPT !.t = "int", !.num = n]
JsonFloat(n) == [JsonNull EXCEPT !.t = "float", !.num = n]
JsonStr(s) == [JsonNull EXCEPT !.t = "str", !.str = s]
JsonList(l) == [JsonNull EXCEPT !.t = "list", !.items = l]
PayloadJson(members) == [kind |-> "json_object", members |-> members]

Digits == <<"0", "1", "2", "3", "4", "5", "6", "7", "8", "9">>
DigitValue(c) == (CHOOSE i \in DOMAIN Digits : Digits[i] = c) - 1

\* a string pydantic's lax mode reads as a number: digits only
IsNumeric(s) ==
  /\ s # <<>>
  /\ \A i \in DOMAIN s : \E j \in DOMAIN Digits : Digits[j] = s[i]

RECURSIVE IntOf(_)
IntOf(s) ==
  IF s = <<>> THEN 0
  ELSE 10 * IntOf(SubSeq(s, 1, Len(s) - 1)) + DigitValue(s[Len(s)])

\* validation of one member against int | None and float | None (lax mode): a
\* number is taken, a numeric string is converted, anything else is an error
ValidateNumber(j) ==
  IF j.t = "null" THEN Returned(None)
  ELSE IF j.t \in {"int", "float"} THEN Returned(Some(j.num))
  ELSE IF j.t = "str" /\ IsNumeric(j.str) THEN Returned(Some(IntOf(j.str)))
  ELSE Raised("ValidationError")

\* validation of one member against str | None: numbers are not converted
ValidateStr(j) ==
  IF j.t = "null" THEN Returned(None)
  ELSE IF j.t = "str" THEN Returned(Some(j.str))
  ELSE Raised("ValidationError")

\* validation of one member against list[str] | None
ValidateStrList(j) ==
  IF j.t = "null" THEN Returned(None)
  ELSE IF j.t = "list" /\ \A i \in DOMAIN j.items : j.items[i].t = "str"
       THEN Returned(Some([i \in DOMAIN j.items |-> j.items[i].str]))
  ELSE Raised("ValidationError")

\* the member a field is populated from: its alias, else its own name
\* (populate_by_name), else the default None; every other key is ignored
Member(members, alias, name) ==
  IF alias \in DOMAIN members THEN members[alias]
  ELSE IF name \in DOMAIN members THEN members[name]
  ELSE JsonNull

\* TaskAttrs(**data): every field validated, one error fails the whole model
ValidateTaskAttrs(data) ==
  LET created_at == ValidateNumber(Member(data, "createdAt", "created_at"))
      completed_at == ValidateNumber(Member(data, "completedAt", "completed_at"))
      start_at == ValidateNumber(Member(data, "startAt", "start_at"))
      duration == ValidateStr(Member(data, "duration", "duration"))
      repeat == ValidateStr(Member(data, "repeat", "repeat"))
      flags == ValidateStr(Member(data, "flags", "flags"))
      points == ValidateNumber(Member(data, "points", "points"))
      victory_value == ValidateNumber(Member(data, "victoryValue", "victory_value"))
      streak_count == ValidateNumber(Member(data, "streakCount", "streak_count"))
      references == ValidateStrList(Member(data, "references", "references"))
  IN IF \/ created_at.raised \/ completed_at.raised \/ start_at.raised
        \/ duration.raised \/ repeat.raised \/ flags.raised \/ points.raised
        \/ victory_value.raised \/ streak_count.raised \/ references.raised
     THEN Raised("ValidationError")
     ELSE Returned(
            [ created_at |-> created_at.value,
              completed_at |-> completed_at.value,
              start_at |-> start_at.value,
              duration |-> duration.value,
              repeat |-> repeat.value,
              flags |-> flags.value,
              points |-> points.value,
              victory_value |-> victory_value.value,
              streak_count |-> streak_count.value,
              references |-> references.value ])

\* TasksService._parse_task_attrs
_parse_task_attrs(attrs_json) ==
  IF attrs_json.kind \in {"null", "empty"} THEN Returned(None)
  ELSE IF attrs_json.kind = "invalid_json" THEN Returned(None)
  ELSE IF attrs_json.kind = "non_object" THEN Raised("TypeError")
  ELSE IF attrs_json.kind = "wrong_type" THEN Returned(None)
  ELSE IF attrs_json.kind = "json_object"
       THEN LET model == ValidateTaskAttrs(attrs_json.members)
            IN IF model.raised THEN Returned(None) ELSE Returned(Some(model.value))
  ELSE LET data == attrs_json.obj IN
       Returned(Some(
         [ TaskAttrs EXCEPT
             !.created_at = data.createdAt,
             !.completed_at = data.completedAt,
             !.start_at = data.startAt,
             !.duration = data.duration,
             !.repeat = data.repeat,
             !.flags = data.flags,
             !.points = data.points,
             !.victory_value = data.victoryValue,
             !.streak_count = data.streakCount,
             !.references = data.references ]))

(***************************************************************************)
(* The content column.  A payload is NULL, the empty string, text that is  *)
(* not JSON, a JSON value that is not an array, or a JSON array of nodes.  *)
(* A node is a record with a "type" and the keys of its kind.              *)
(***************************************************************************)
ContentNull == [kind |-> "null"]
ContentEmpty == [kind |-> "empty"]
ContentInvalidJson == [kind |-> "invalid_json"]
ContentNonArray == [kind |-> "non_array"]
ContentJson(nodes) == [kind |-> "json", doc |-> nodes]

TextNode(t) == [type |-> "text", text |-> t]
LinkNode(h, label) == [type |-> "link", href |-> h, content |-> label]
HardBreakNode == [type |-> "hard_break"]
ParagraphNode(nodes) == [type |-> "paragraph", content |-> nodes]

\* pydantic validation of one inline node against TextNode | LinkNode | HardBreakNode
ValidInline(n) ==
  \/ n.type = "text" /\ "text" \in DOMAIN n
  \/ /\ n.type = "link"
     /\ "href" \in DOMAIN n
     /\ "content" \in DOMAIN n
     /\ \A i \in DOMAIN n.content :
          n.content[i].type = "text" /\ "text" \in DOMAIN n.content[i]
  \/ n.type = "hard_break"

ValidParagraph(p) ==
  /\ p.type = "paragraph"
  /\ "content" \in DOMAIN p
  /\ \A i \in DOMAIN p.content : ValidInline(p.content[i])

\* a parser that keeps the paragraphs that validate and drops the others
_parse_task_content_DropsInvalid(content_json) ==
  IF content_json.kind \in {"null", "empty"} THEN Returned(None)
  ELSE IF content_json.kind \in {"invalid_json", "non_array"} THEN Returned(None)
  ELSE Returned(Some(SelectSeq(content_json.doc, ValidParagraph)))

\* TasksService._parse_task_content
_parse_task_content(content_json) ==
  IF content_json.kind \in {"null", "empty"} THEN Returned(None)
  ELSE IF content_json.kind \in {"invalid_json", "non_array"} THEN Returned(None)
  ELSE IF \A i \in DOMAIN content_json.doc : ValidParagraph(content_json.doc[i])
       THEN Returned(Some(content_json.doc))
       ELSE Returned(None)

RECURSIVE Concat(_)
Concat(ss) == IF ss = <<>> THEN <<>> ELSE Head(ss) \o Concat(Tail(ss))

\* the words of the serialized text of one node, in the order json.dumps writes them
RECURSIVE NodeWords(_)
NodeWords(n) ==
  <<"type", n.type>>
  \o (IF "text" \in DOMAIN n THEN <<"text">> \o n.text ELSE <<>>)
  \o (IF "href" \in DOMAIN n THEN <<"attrs", "href">> \o n.href ELSE <<>>)
  \o (IF "content" \in DOMAIN n
      THEN <<"content">> \o Concat([i \in DOMAIN n.content |-> NodeWords(n.content[i])])
      ELSE <<>>)

\* the words of the stored content text
ContentWords(content_json) ==
  IF content_json.kind = "json"
  THEN Concat([i \in DOMAIN content_json.doc |-> NodeWords(content_json.doc[i])])
  ELSE IF content_json.kind = "invalid_json" THEN <<"{{{">>
  ELSE IF content_json.kind = "non_array" THEN <<"42">>
  ELSE <<>>

\* s in t for Python strings: s occurs in t as a contiguous run
Contains(t, s) ==
  \E i \in 0..(Len(t) - Len(s)) : SubSeq(t, i + 1, i + Len(s)) = s

\* SQL: content LIKE '%' || s || '%' (NULL LIKE anything is not true)
Like(content_json, s) ==
  /\ content_json.kind # "null"
  /\ Contains(ContentWords(content_json), s)

(***************************************************************************)
(* A row of the tasks table: the columns query_tasks reads and decides on. *)
(* deleted and done hold NULL, 0 or 1; due holds NULL or epoch seconds.    *)
(***************************************************************************)
Row(id, deleted, done, due, attrs, content) ==
  [id |-> id, deleted |-> deleted, done |-> done, due |-> due,
   attrs |-> attrs, content |-> content]

\* datetime.fromtimestamp(n): the local datetime of the instant n
FromTimestamp(n) == [datetime |-> n]
\* datetime.timestamp(): the instant of a datetime built by fromtimestamp
Timestamp(d) == d.datetime

(***************************************************************************)
(* query_tasks, pushdown phase: the WHERE clause built from the query,     *)
(* evaluated on one row under SQL's three-valued logic.                    *)
(***************************************************************************)
SqlWhere(row, q) ==
  /\ q.include_deleted \/ IsNone(row.deleted) \/ Val(row.deleted) = 0
  /\ q.include_done \/ IsNone(row.done) \/ Val(row.done) = 0
  /\ IsSome(q.has_due_date) =>
       IF Val(q.has_due_date) THEN IsSome(row.due) ELSE IsNone(row.due)
  /\ IsSome(q.due_after) => IsSome(row.due) /\ Val(row.due) >= Val(q.due_after)
  /\ IsSome(q.due_before) => IsSome(row.due) /\ Val(row.due) <= Val(q.due_before)
  /\ (IsSome(q.content_search) /\ Val(q.content_search) # <<>>) =>
       Like(row.content, Val(q.content_search))

\* cursor.execute + cursor.fetchall: the rows the statement admits, in scan order
RECURSIVE FetchAll(_, _)
FetchAll(rows, q) ==
  IF rows = <<>> THEN <<>>
  ELSE (IF SqlWhere(Head(rows), q) THEN <<Head(rows)>> ELSE <<>>)
       \o FetchAll(Tail(rows), q)

(***************************************************************************)
(* query_tasks, in-memory filter phase.                                    *)
(***************************************************************************)
\* Python: c in s, for a one-character c in a string or an element c in a list
PyIn(c, s) == \E i \in DOMAIN s : s[i] = c

\* Python: attrs.flags if attrs and attrs.flags else ""
FlagsOf(attrs) ==
  IF IsSome(attrs) /\ IsSome(Val(attrs).flags) /\ Val(Val(attrs).flags) # <<>>
  THEN Val(Val(attrs).flags)
  ELSE <<>>

\* variant of MinOk: an absent attribute bag or field leaves the bound unapplied
MinOk_SkipsAbsent(attrs, field, bound) ==
  IsSome(bound) =>
    \/ IsNone(attrs)
    \/ IsNone(Val(attrs)[field])
    \/ ~(Val(Val(attrs)[field]) < Val(bound))

\* variant of MinOk: an absent field compares as 0
MinOk_AbsentAsZero(attrs, field, bound) ==
  IsSome(bound) =>
    /\ IsSome(attrs)
    /\ ~((IF IsSome(Val(attrs)[field]) THEN Val(Val(attrs)[field]) ELSE 0) < Val(bound))

\* if not attrs or attrs.f is None or attrs.f < bound: continue
MinOk(attrs, field, bound) ==
  IsSome(bound) =>
    /\ IsSome(attrs)
    /\ IsSome(Val(attrs)[field])
    /\ ~(Val(Val(attrs)[field]) < Val(bound))

\* if not attrs or attrs.f is None or attrs.f > bound: continue
MaxOk(attrs, field, bound) ==
  IsSome(bound) =>
    /\ IsSome(attrs)
    /\ IsSome(Val(attrs)[field])
    /\ ~(Val(Val(attrs)[field]) > Val(bound))

\* variant of FlagsFilterOk: the flags string is compared whole
FlagsFilterOk_ExactString(attrs, q) ==
  IsSome(q.flags_filter) =>
    LET flags == FlagsOf(attrs)
        f == Val(q.flags_filter)
    IN IF f = "urgent" THEN flags = <<"U">>
       ELSE IF f = "important" THEN flags = <<"I">>
       ELSE IF f = "both" THEN flags = <<"I", "U">>
       ELSE IF f = "none" THEN ~PyIn("U", flags) /\ ~PyIn("I", flags)
       ELSE IF f = "any" THEN PyIn("U", flags) \/ PyIn("I", flags)
       ELSE FALSE

FlagsFilterOk(attrs, q) ==
  IsSome(q.flags_filter) =>
    LET flags == FlagsOf(attrs)
        has_urgent == PyIn("U", flags)
        has_important == PyIn("I", flags)
        f == Val(q.flags_filter)
    IN IF f = "urgent" THEN has_urgent /\ ~has_important
       ELSE IF f = "important" THEN has_important /\ ~has_urgent
       ELSE IF f = "both" THEN has_urgent /\ has_important
       ELSE IF f = "none" THEN ~has_urgent /\ ~has_important
       ELSE IF f = "any" THEN has_urgent \/ has_important
       ELSE FALSE

\* variant of HasFlagsOk: query.has_flags in flags, a substring test
HasFlagsOk_Substring(attrs, q) ==
  IsSome(q.has_flags) =>
    LET flags == FlagsOf(attrs)
        S == Val(q.has_flags)
    IN \E i \in 1..(Len(flags) + 1) :
         i + Len(S) - 1 <= Len(flags) /\ SubSeq(flags, i, i + Len(S) - 1) = S

\* all(flag in flags for flag in query.has_flags)
HasFlagsOk(attrs, q) ==
  IsSome(q.has_flags) =>
    LET flags == FlagsOf(attrs)
    IN \A i \in DOMAIN Val(q.has_flags) : PyIn(Val(q.has_flags)[i], flags)

\* Python: attrs and <test>, compared with a bool by != (None differs from both)
AndAttrs(attrs, test) == IF IsNone(attrs) THEN None ELSE Some(test)

HasDurationOk(attrs, q) ==
  IsSome(q.has_duration) =>
    LET has_duration == AndAttrs(attrs, IsSome(attrs) /\ IsSome(Val(attrs).duration))
    IN ~(q.has_duration # has_duration)

DurationEqualsOk(attrs, q) ==
  IsSome(q.duration_equals) =>
    ~(IsNone(attrs) \/ Val(attrs).duration # q.duration_equals)

IsRecurringOk(attrs, q) ==
  IsSome(q.is_recurring) =>
    LET is_recurring == AndAttrs(attrs, IsSome(attrs) /\ IsSome(Val(attrs).repeat))
    IN ~(q.is_recurring # is_recurring)

HasReferencesOk(attrs, q) ==
  IsSome(q.has_references) =>
    LET has_references ==
          AndAttrs(attrs, /\ IsSome(attrs)
                          /\ IsSome(Val(attrs).references)
                          /\ Len(Val(Val(attrs).references)) > 0)
    IN ~(q.has_references # has_references)

ReferencesUuidOk(attrs, q) ==
  IsSome(q.references_uuid) =>
    ~(\/ IsNone(attrs)
      \/ IsNone(Val(attrs).references)
      \/ Val(Val(attrs).references) = <<>>
      \/ ~PyIn(Val(q.references_uuid), Val(Val(attrs).references)))

\* the body of the row loop up to "Build task result": TRUE when no continue is taken
PassesAttrFilters(attrs, q) ==
  /\ MinOk(attrs, "points", q.min_points)
  /\ MaxOk(attrs, "points", q.max_points)
  /\ MinOk(attrs, "victory_value", q.min_victory_value)
  /\ MaxOk(attrs, "victory_value", q.max_victory_value)
  /\ MinOk(attrs, "streak_count", q.min_streak_count)
  /\ MaxOk(attrs, "streak_count", q.max_streak_count)
  /\ MinOk(attrs, "created_at", q.created_after)
  /\ MaxOk(attrs, "created_at", q.created_before)
  /\ MinOk(attrs, "completed_at", q.completed_after)
  /\ MaxOk(attrs, "completed_at", q.completed_before)
  /\ MinOk(attrs, "start_at", q.start_after)
  /\ MaxOk(attrs, "start_at", q.start_before)
  /\ FlagsFilterOk(attrs, q)
  /\ HasFlagsOk(attrs, q)
  /\ HasDurationOk(attrs, q)
  /\ DurationEqualsOk(attrs, q)
  /\ IsRecurringOk(attrs, q)
  /\ HasReferencesOk(attrs, q)
  /\ ReferencesUuidOk(attrs, q)

\* the dict appended to results
BuildTask(row, attrs, content) ==
  [ id |-> row.id,
    deleted |-> ~(IsSome(row.deleted) /\ Val(row.deleted) = 0),
    attrs |-> attrs,
    content |-> content,
    due |-> IF IsNone(row.due) \/ Val(row.due) = 0 THEN None
            ELSE Some(FromTimestamp(Val(row.due))),
    done |-> ~(IsSome(row.done) /\ Val(row.done) = 0) ]

\* for row in cursor.fetchall(): parse, filter, append; an exception ends the loop
RECURSIVE FilterLoop(_, _, _)
FilterLoop(rows, q, results) ==
  IF rows = <<>> THEN Returned(results)
  ELSE LET row == Head(rows)
           attrs == _parse_task_attrs(row.attrs)
           content == _parse_task_content(row.content)
       IN IF attrs.raised THEN attrs
          ELSE IF content.raised THEN content
          ELSE IF PassesAttrFilters(attrs.value, q)
               THEN FilterLoop(Tail(rows), q,
                               Append(results, BuildTask(row, attrs.value, content.value)))
               ELSE FilterLoop(Tail(rows), q, results)

(***************************************************************************)
(* query_tasks, sort phase.  A key is <<0, n>> for the number n and        *)
(* <<1, 0>> for float('inf').                                              *)
(***************************************************************************)
Num(n) == <<0, n>>
Inf == <<1, 0>>
KeyLt(a, b) == a[1] < b[1] \/ (a[1] = b[1] /\ a[2] < b[2])

\* x["attrs"].f if x["attrs"] and x["attrs"].f else 0
AttrKey(x, field) ==
  IF IsSome(x.attrs) /\ IsSome(Val(x.attrs)[field]) /\ Val(Val(x.attrs)[field]) # 0
  THEN Num(Val(Val(x.attrs)[field]))
  ELSE Num(0)

\* variant of DueKey: an absent due date sorts as 0
DueKey_AbsentAsZero(x) == IF IsSome(x.due) THEN Num(Timestamp(Val(x.due))) ELSE Num(0)

\* x["due"].timestamp() if x["due"] else float('inf')
DueKey(x) == IF IsSome(x.due) THEN Num(Timestamp(Val(x.due))) ELSE Inf

SortKey(x, q) ==
  IF q.sort_by = Some("points") THEN AttrKey(x, "points")
  ELSE IF q.sort_by = Some("created") THEN AttrKey(x, "created_at")
  ELSE IF q.sort_by = Some("completed") THEN AttrKey(x, "completed_at")
  ELSE IF q.sort_by = Some("victory_value") THEN AttrKey(x, "victory_value")
  ELSE IF q.sort_by = Some("streak_count") THEN AttrKey(x, "streak_count")
  ELSE DueKey(x)

\* xs is sorted; x goes in front of the first element that must follow it
RECURSIVE InsertByKey(_, _, _)
InsertByKey(xs, x, q) ==
  IF xs = <<>> THEN <<x>>
  ELSE IF (IF q.sort_descending
           THEN KeyLt(SortKey(Head(xs), q), SortKey(x, q))
           ELSE KeyLt(SortKey(x, q), SortKey(Head(xs), q)))
       THEN <<x>> \o xs
       ELSE <<Head(xs)>> \o InsertByKey(Tail(xs), x, q)

\* list.sort(key=..., reverse=...): stable in both directions
RECURSIVE SortFrom(_, _, _)
SortFrom(sorted, rest, q) ==
  IF rest = <<>> THEN sorted
  ELSE SortFrom(InsertByKey(sorted, Head(rest), q), Tail(rest), q)

RECURSIVE Reverse(_)
Reverse(xs) == IF xs = <<>> THEN <<>> ELSE Append(Reverse(Tail(xs)), Head(xs))

\* variant of SortResults: ascending sort, then the list reversed for descending
SortResults_ReversedList(results, q) ==
  LET ascending == SortFrom(<<>>, results, [q EXCEPT !.sort_descending = FALSE])
  IN IF q.sort_descending THEN Reverse(ascending) ELSE ascending

SortResults(results, q) == SortFrom(<<>>, results, q)

(***************************************************************************)
(* query_tasks, paginate phase: results[start_idx:end_idx].                *)
(***************************************************************************)
\* variant of Paginate: results[offset:limit]
Paginate_EndIsLimit(results, q) ==
  LET start_idx == q.offset
      end_idx == q.limit
  IN SubSeq(results, start_idx + 1, Min(end_idx, Len(results)))

Paginate(results, q) ==
  LET start_idx == q.offset
      end_idx == start_idx + q.limit
  IN SubSeq(results, start_idx + 1, Min(end_idx, Len(results)))

\* variant of query_tasks: LIMIT ? OFFSET ? in the statement, before the row loop
query_tasks_LimitInSql(rows, q) ==
  LET filtered == FilterLoop(Paginate(FetchAll(rows, q), q), q, <<>>)
  IN IF filtered.raised THEN filtered
     ELSE Returned(SortResults(filtered.value, q))

\* TasksService.query_tasks, from cursor.execute to return
query_tasks(rows, q) ==
  LET filtered == FilterLoop(FetchAll(rows, q), q, <<>>)
  IN IF filtered.raised THEN filtered
     ELSE Returned(Paginate(SortResults(filtered.value, q), q))

(***************************************************************************)
(* The stores and queries the model ranges over.                           *)
(***************************************************************************)
Doc1 == ContentJson(<<ParagraphNode(<<TextNode(<<"Review">>),
                                       LinkNode(<<"url">>, <<TextNode(<<"TICKET">>)>>),
                                       HardBreakNode, TextNode(<<"today">>)>>)>>)
Doc2 == ContentJson(<<ParagraphNode(<<TextNode(<<"Task">>)>>)>>)

\* the rows a store is drawn from, in rowid order
TaskTable ==
  << Row(1, Some(0), Some(0), Some(2),
         PayloadObject([AttrsObject EXCEPT !.points = Some(1), !.flags = Some(<<"U">>),
                          !.createdAt = Some(2), !.victoryValue = Some(0),
                          !.streakCount = Some(1), !.duration = Some(<<"PT30M">>)]), Doc1),
     Row(2, Some(0), Some(0), None, PayloadNull, Doc2),
     Row(3, Some(0), Some(0), Some(1),
         PayloadObject([AttrsObject EXCEPT !.points = Some(0), !.flags = Some(<<"I">>),
                          !.createdAt = Some(0), !.completedAt = Some(1),
                          !.startAt = Some(0)]), Doc2),
     Row(4, Some(0), Some(0), Some(0),
         PayloadObject([AttrsObject EXCEPT !.points = Some(-1), !.flags = Some(<<"I", "U">>),
                          !.createdAt = Some(1), !.victoryValue = Some(-1),
                          !.repeat = Some(<<"RRULE">>), !.references = Some(<<<<"n1">>>>)]), Doc2),
     Row(5, Some(0), Some(0), Some(1), PayloadObject(AttrsObject), ContentNull),
     Row(6, Some(0), Some(0), Some(3),
         PayloadObject([AttrsObject EXCEPT !.points = Some(2),
                          !.flags = Some(<<"U", "I", "U">>),
                          !.victoryValue = Some(1), !.streakCount = Some(0),
                          !.completedAt = Some(0), !.startAt = Some(1),
                          !.references = Some(<<>>)]), Doc2),
     Row(7, Some(0), Some(0), None,
         PayloadObject([AttrsObject EXCEPT !.points = Some(1), !.flags = Some(<<"I", "U", "D">>),
                          !.streakCount = Some(2), !.completedAt = Some(2),
                          !.startAt = Some(2), !.duration = Some(<<"PT1H">>),
                          !.references = Some(<<<<"n2">>, <<"n1">>>>)]), Doc1),
     Row(8, Some(0), Some(0), Some(1),
         PayloadObject([AttrsObject EXCEPT !.flags = Some(<<"D">>),
                          !.victoryValue = Some(2)]), Doc2),
     Row(9, Some(0), Some(0), Some(3),
         PayloadObject([AttrsObject EXCEPT !.flags = Some(<<>>), !.points = Some(0)]),
         ContentInvalidJson),
     Row(10, Some(1), Some(0), Some(1), PayloadEmpty, Doc2),
     Row(11, Some(0), Some(1), Some(2),
         PayloadObject([AttrsObject EXCEPT !.points = Some(1), !.flags = Some(<<"I">>)]),
         Doc2),
     Row(12, None, None, Some(2), PayloadWrongType, ContentEmpty),
     Row(13, Some(0), Some(0), Some(2), PayloadInvalidJson, Doc2),
     Row(14, Some(0), Some(0), Some(2), PayloadNonObject, Doc2) >>

\* the ascending index sequences of length n taken from lo..hi
RECURSIVE Picks(_, _, _)
Picks(lo, hi, n) ==
  IF n = 0 THEN {<<>>}
  ELSE UNION {{<<i>> \o p : p \in Picks(i + 1, hi, n - 1)} : i \in lo..hi}

\* a store: at most MaxTasks rows of the table, in rowid order
Stores ==
  UNION {{[j \in 1..n |-> TaskTable[p[j]]] : p \in Picks(1, Len(TaskTable), n)} : n \in 0..MaxTasks}

SortChoices == {None} \cup {Some(k) : k \in SortKeys}

RangeFields ==
  {"min_points", "max_points", "min_victory_value", "max_victory_value",
   "min_streak_count", "max_streak_count", "created_after", "created_before",
   "completed_after", "completed_before", "start_after", "start_before"}

FlagStrings == {<<>>, <<"I">>, <<"U">>, <<"I", "U">>, <<"U", "I">>, <<"D">>, <<"I", "I">>}

\* no attribute filter; every sort key and direction, the default page
SortQueries ==
  {[TaskQuery EXCEPT !.sort_by = sb, !.sort_descending = d] :
     sb \in SortChoices, d \in BOOLEAN}

\* no attribute filter; every page, by due and by points
PageQueries ==
  {[TaskQuery EXCEPT !.sort_by = sb, !.sort_descending = d, !.offset = o, !.limit = l] :
     sb \in {None, Some("points")}, d \in BOOLEAN,
     o \in 0..MaxOffset, l \in LimitFloor..MaxLimit}

\* one filter set, the rest of the query at its defaults
FilterQueries ==
  {[TaskQuery EXCEPT ![f] = Some(b)] : f \in RangeFields \cup {"due_after", "due_before"},
                                        b \in 0..MaxBound}
  \cup {[TaskQuery EXCEPT !.flags_filter = Some(f)] : f \in FlagsFilters}
  \cup {[TaskQuery EXCEPT !.has_flags = Some(s)] : s \in FlagStrings}
  \cup {[TaskQuery EXCEPT ![f] = Some(b)] :
          f \in {"has_duration", "is_recurring", "has_references", "has_due_date"},
          b \in BOOLEAN}
  \cup {[TaskQuery EXCEPT !.duration_equals = Some(<<"PT30M">>)],
        [TaskQuery EXCEPT !.references_uuid = Some(<<"n1">>)],
        [TaskQuery EXCEPT !.include_deleted = TRUE],
        [TaskQuery EXCEPT !.include_done = TRUE],
        [TaskQuery EXCEPT !.include_deleted = TRUE, !.include_done = TRUE],
        [TaskQuery EXCEPT !.content_search = Some(<<>>)],
        [TaskQuery EXCEPT !.content_search = Some(<<"TICKET">>)],
        [TaskQuery EXCEPT !.content_search = Some(<<"Review", "TICKET">>)],
        [TaskQuery EXCEPT !.content_search = Some(<<"paragraph">>)]}

\* a filter together with a sort and a page
ComboQueries ==
  {[f EXCEPT !.sort_by = sb, !.offset = o, !.limit = l] :
     f \in {[TaskQuery EXCEPT !.min_points = Some(1)],
            [TaskQuery EXCEPT !.flags_filter = Some("any"), !.sort_descending = TRUE],
            [TaskQuery EXCEPT !.has_flags = Some(<<"I">>), !.max_points = Some(1)]},
     sb \in {None, Some("points")}, o \in 0..1, l \in LimitFloor..MaxLimit}

Queries == SortQueries \cup PageQueries \cup FilterQueries \cup ComboQueries

(***************************************************************************)
(* The state machine: a caller makes one call at a time on an unchanging   *)
(* store; the call either returns a list or ends with an exception.        *)
(***************************************************************************)
Init ==
  /\ store \in Stores
  /\ pc = "idle"
  /\ query = TaskQuery
  /\ result = <<>>
  /\ FlattenAtRest
  /\ CallsAtRest
  /\ ServiceAtRest

\* TasksService.query_tasks: the whole call
QueryTasks ==
  /\ pc = "idle"
  /\ \E q \in Queries :
       /\ ValidPagination(q)
       /\ query' = q
       /\ LET r == query_tasks(store, q)
          IN IF r.raised
             THEN pc' = "raised" /\ result' = <<>>
             ELSE pc' = "returned" /\ result' = r.value
  /\ UNCHANGED <<store, calls, flatten_vars, service_vars>>

\* the caller takes the value or the exception; nothing of the call is kept
Done ==
  /\ pc \in {"returned", "raised"}
  /\ pc' = "idle"
  /\ query' = TaskQuery
  /\ result' = <<>>
  /\ UNCHANGED <<store, calls, flatten_vars, service_vars>>

Next == QueryTasks \/ Done

Spec == Init /\ [][Next]_vars

(***************************************************************************)
(* Vocabulary of the properties.                                           *)
(***************************************************************************)
Ids(tasks) == {tasks[i].id : i \in DOMAIN tasks}

\* the typed attributes of a stored row (None when the payload gives none)
AttrsOfRow(row) ==
  LET a == _parse_task_attrs(row.attrs) IN IF a.raised THEN None ELSE a.value

\* the characters of a row's flags string, as a set
FlagChars(row) ==
  LET a == AttrsOfRow(row)
  IN IF IsSome(a) /\ IsSome(Val(a).flags)
     THEN {Val(Val(a).flags)[i] : i \in DOMAIN Val(Val(a).flags)}
     ELSE {}

\* the rows of the store that satisfy every filter of the query
Matching(q) ==
  {i \in DOMAIN store : SqlWhere(store[i], q) /\ PassesAttrFilters(AttrsOfRow(store[i]), q)}

\* the row loop run over every row the statement admits
WholeLoop(q) == FilterLoop(FetchAll(store, q), q, <<>>)

\* the fully filtered, fully sorted sequence of the query
FullSequence(q) == SortResults(WholeLoop(q).value, q)

Page(q, o, l) == query_tasks(store, [q EXCEPT !.offset = o, !.limit = l])

SortsByDue(q) == q.sort_by = None \/ q.sort_by = Some("due")

\* C1: over an unchanged store and a query fixed but for offset and limit, for every
\* k >= 1 page(0,k) followed by page(k,k) equals page(0,2k), the two pages share no
\* task id, and a call made with (offset=k, limit=k) returns that second page.
C1_PaginationLaw ==
  pc = "returned" =>
    \A k \in 1..MaxK :
      LET first == Page(query, 0, k)
          second == Page(query, k, k)
          both == Page(query, 0, 2 * k)
      IN /\ ~first.raised /\ ~second.raised /\ ~both.raised
         /\ first.value \o second.value = both.value
         /\ Ids(first.value) \cap Ids(second.value) = {}
         /\ (query.offset = k /\ query.limit = k) => result = second.value

\* C1 witness: a second page (offset=k=limit) that is not empty, after a full first page
C1_Witness ==
  /\ pc = "returned"
  /\ query.offset = 2 /\ query.limit = 2
  /\ query.sort_by = Some("points")
  /\ Len(result) >= 1
  /\ Len(Page(query, 0, 2).value) = 2

\* C2: offset and limit apply after all filters and the sort: with M rows satisfying
\* every filter, the call returns min(limit, max(0, M - offset)) tasks, the positions
\* offset .. offset+limit-1 of the fully filtered, fully sorted sequence.
C2_PaginateAfterFilterAndSort ==
  pc = "returned" =>
    /\ ~WholeLoop(query).raised
    /\ LET M == Cardinality(Matching(query))
           full == FullSequence(query)
       IN /\ Len(full) = M
          /\ Ids(full) = {store[i].id : i \in Matching(query)}
          /\ Len(result) = Min(query.limit, Max(0, M - query.offset))
          /\ \A i \in 1..Len(result) : result[i] = full[query.offset + i]

\* C2 witness: an attribute filter that drops rows, a page that starts after the first
\* match and is cut short by the end of the matches
C2_Witness ==
  /\ pc = "returned"
  /\ query.min_points = Some(1)
  /\ query.offset = 1 /\ query.limit = 2
  /\ Cardinality(Matching(query)) = 2
  /\ Len(FetchAll(store, query)) > 2
  /\ Len(result) = 1

\* C3: sorted by due (or with sort_by unset), ascending: every returned task with a due
\* date precedes every returned task without one, and the due dates are non-decreasing.
C3_DueAscending ==
  (pc = "returned" /\ SortsByDue(query) /\ ~query.sort_descending) =>
    \A i, j \in DOMAIN result :
      i < j =>
        /\ IsSome(result[j].due) => IsSome(result[i].due)
        /\ (IsSome(result[i].due) /\ IsSome(result[j].due)) =>
             Timestamp(Val(result[i].due)) <= Timestamp(Val(result[j].due))

\* C3 witness: the sort moved a later-due task behind an earlier-due one, and a task
\* without a due date is last
C3_Witness ==
  /\ pc = "returned" /\ SortsByDue(query) /\ ~query.sort_descending
  /\ Len(result) = 3
  /\ IsSome(result[1].due) /\ IsSome(result[2].due) /\ IsNone(result[3].due)
  /\ result[1].id > result[2].id
  /\ result[3].id < result[1].id

\* C4: sorted by due, tasks with no due date come after all tasks that have one in
\* both directions (sort_descending false and true).
C4_NoDueLastBothDirections ==
  (pc = "returned" /\ SortsByDue(query)) =>
    \A i, j \in DOMAIN result : (i < j /\ IsSome(result[j].due)) => IsSome(result[i].due)

\* the sort field of a returned task for a sort key other than due
SortFieldOf(x, q) ==
  LET f == IF q.sort_by = Some("points") THEN "points"
           ELSE IF q.sort_by = Some("created") THEN "created_at"
           ELSE IF q.sort_by = Some("completed") THEN "completed_at"
           ELSE IF q.sort_by = Some("victory_value") THEN "victory_value"
           ELSE "streak_count"
  IN IF IsSome(x.attrs) THEN Val(x.attrs)[f] ELSE None

\* C5: sorted by points, created, completed, victory_value or streak_count, a task
\* whose sort field is absent precedes every task whose field is present (ascending)
\* and follows every such task (descending).
C5_AbsentSortsLowest ==
  (pc = "returned" /\ IsSome(query.sort_by) /\ query.sort_by # Some("due")) =>
    \A i, j \in DOMAIN result :
      (i < j) =>
        IF query.sort_descending
        THEN IsNone(SortFieldOf(result[i], query)) => IsNone(SortFieldOf(result[j], query))
        ELSE IsNone(SortFieldOf(result[j], query)) => IsNone(SortFieldOf(result[i], query))

\* C6: with min_points=P set, every returned task has attrs present and points present
\* with points >= P.
C6_MinPoints ==
  (pc = "returned" /\ IsSome(query.min_points)) =>
    \A i \in DOMAIN result :
      /\ IsSome(result[i].attrs)
      /\ IsSome(Val(result[i].attrs).points)
      /\ Val(Val(result[i].attrs).points) >= Val(query.min_points)

\* C6 witness: the filter kept a task and dropped both a task without attrs and a task
\* with too few points
C6_Witness ==
  /\ pc = "returned"
  /\ query = [TaskQuery EXCEPT !.min_points = Some(1)]
  /\ Len(result) = 1
  /\ \E i \in DOMAIN store : SqlWhere(store[i], query) /\ IsNone(AttrsOfRow(store[i]))
  /\ \E i \in DOMAIN store :
       /\ SqlWhere(store[i], query)
       /\ IsSome(AttrsOfRow(store[i]))
       /\ Val(AttrsOfRow(store[i])).points = Some(0)

\* the query sets at least one attribute-scoped predicate
AnyAttrFilter(q) ==
  \/ \E f \in RangeFields : IsSome(q[f])
  \/ \E f \in {"flags_filter", "has_flags", "has_duration", "duration_equals",
                "is_recurring", "has_references", "references_uuid"} : IsSome(q[f])

\* C7: whenever the query sets any attribute-scoped predicate (flags_filter "none" and
\* has_flags "" included), no task without attrs appears in the result.
C7_NoAttrsFailsEveryAttrFilter ==
  (pc = "returned" /\ AnyAttrFilter(query)) =>
    \A i \in DOMAIN result : IsSome(result[i].attrs)

\* the attribute a range field of the query bounds
RangeAttr(f) ==
  IF f \in {"min_points", "max_points"} THEN "points"
  ELSE IF f \in {"min_victory_value", "max_victory_value"} THEN "victory_value"
  ELSE IF f \in {"min_streak_count", "max_streak_count"} THEN "streak_count"
  ELSE IF f \in {"created_after", "created_before"} THEN "created_at"
  ELSE IF f \in {"completed_after", "completed_before"} THEN "completed_at"
  ELSE "start_at"

\* the query sets the one field f and leaves every other field at its default
SetsOnly(q, f) == IsSome(q[f]) /\ q = [TaskQuery EXCEPT ![f] = q[f]]

\* C8: for each of the six range fields and a query that sets only its min bound or
\* only its max bound, a task with attrs present and the field absent is excluded (also
\* when 0 would satisfy the bound) and a task whose field equals the bound is included.
C8_RangeAbsentExcludedBoundInclusive ==
  pc = "returned" =>
    \A f \in RangeFields :
      SetsOnly(query, f) =>
        \A i \in DOMAIN store :
          (SqlWhere(store[i], query) /\ IsSome(AttrsOfRow(store[i]))) =>
            LET v == Val(AttrsOfRow(store[i]))[RangeAttr(f)]
            IN /\ IsNone(v) => store[i].id \notin Ids(result)
               /\ v = query[f] => store[i].id \in Ids(result)

\* C8 witness: a bound that 0 satisfies; a task with the field absent is left out and a
\* task whose field equals the bound is returned
C8_Witness ==
  /\ pc = "returned"
  /\ \E f \in {"max_points", "created_after", "min_victory_value", "max_streak_count",
                "completed_before", "start_after"} :
       /\ SetsOnly(query, f)
       /\ \E i, j \in DOMAIN store :
            /\ SqlWhere(store[i], query) /\ IsSome(AttrsOfRow(store[i]))
            /\ IsNone(Val(AttrsOfRow(store[i]))[RangeAttr(f)])
            /\ store[i].id \notin Ids(result)
            /\ IsSome(AttrsOfRow(store[j]))
            /\ Val(AttrsOfRow(store[j]))[RangeAttr(f)] = query[f]
            /\ store[j].id \in Ids(result)

\* what each flags_filter value asks of the pair (contains U, contains I)
FlagClass(f, u, i) ==
  IF f = "urgent" THEN u /\ ~i
  ELSE IF f = "important" THEN i /\ ~u
  ELSE IF f = "both" THEN u /\ i
  ELSE IF f = "none" THEN ~u /\ ~i
  ELSE u \/ i

\* the flags strings of the rows of the store, in order
StoreFlags == [i \in DOMAIN store |->
                 IF IsSome(AttrsOfRow(store[i])) THEN Val(AttrsOfRow(store[i])).flags ELSE None]

\* C9: with only flags_filter set, a task with attrs is returned exactly when the pair
\* (its flags contain U, its flags contain I) is the one the filter names, whatever the
\* order, repetition and other characters of the flags; a task without attrs is in no
\* class but "none"; for tasks flagged "U", "I", "IU" the filter "both" returns exactly
\* the "IU" task.
C9_FlagsFilterByContainment ==
  (pc = "returned" /\ SetsOnly(query, "flags_filter")) =>
    /\ \A i \in DOMAIN store :
         LET row == store[i]
             f == Val(query.flags_filter)
         IN /\ ~SqlWhere(row, query) => row.id \notin Ids(result)
            /\ (SqlWhere(row, query) /\ (IsSome(AttrsOfRow(row)) \/ f # "none")) =>
                 (row.id \in Ids(result) <=>
                    FlagClass(f, "U" \in FlagChars(row), "I" \in FlagChars(row)))
    /\ (StoreFlags = <<Some(<<"U">>), Some(<<"I">>), Some(<<"I", "U">>)>>
         /\ query.flags_filter = Some("both")) =>
          Ids(result) = {store[3].id}

\* C9 witness: "both" over tasks flagged "U", "I", "IU"
C9_Witness ==
  /\ pc = "returned"
  /\ SetsOnly(query, "flags_filter") /\ query.flags_filter = Some("both")
  /\ StoreFlags = <<Some(<<"U">>), Some(<<"I">>), Some(<<"I", "U">>)>>
  /\ Len(result) = 1

\* C9 second witness: a flags string in another order, with a repeated character
C9_WitnessOrder ==
  /\ pc = "returned"
  /\ SetsOnly(query, "flags_filter") /\ query.flags_filter = Some("both")
  /\ \E i \in DOMAIN result : Val(result[i].attrs).flags = Some(<<"U", "I", "U">>)

\* the characters of a string, as a set
Chars(str) == {str[i] : i \in DOMAIN str}

\* C10: with only has_flags=S set, a task is returned exactly when its flags contain
\* every character of S (more flags allowed; order and repetition irrelevant); a task
\* without attrs is never returned for a non-empty S.
C10_HasFlagsAllCharacters ==
  (pc = "returned" /\ SetsOnly(query, "has_flags")) =>
    \A i \in DOMAIN store :
      LET row == store[i]
          S == Val(query.has_flags)
      IN /\ ~SqlWhere(row, query) => row.id \notin Ids(result)
         /\ (SqlWhere(row, query) /\ (IsSome(AttrsOfRow(row)) \/ S # <<>>)) =>
              (row.id \in Ids(result) <=> Chars(S) \subseteq FlagChars(row))

\* C10 witness: has_flags "UI" over tasks flagged "I", "IU", "IUD" returns the last two
C10_Witness ==
  /\ pc = "returned"
  /\ query = [TaskQuery EXCEPT !.has_flags = Some(<<"U", "I">>)]
  /\ StoreFlags = <<Some(<<"I">>), Some(<<"I", "U">>), Some(<<"I", "U", "D">>)>>
  /\ Ids(result) = {store[2].id, store[3].id}

(***************************************************************************)
(* Payload parsing and its effect on a multi-row call.                     *)
(***************************************************************************)
\* the attrs payloads that are not a well-formed attribute object
MalformedAttrs(attrs_json) == attrs_json.kind \in {"invalid_json", "non_object", "wrong_type"}

\* the content payloads that are not a well-formed document
MalformedContent(content_json) ==
  \/ content_json.kind \in {"invalid_json", "non_array"}
  \/ /\ content_json.kind = "json"
     /\ \E i \in DOMAIN content_json.doc : ~ValidParagraph(content_json.doc[i])

\* C11: for every attrs or content payload of a stored row (absent, empty, invalid JSON,
\* valid JSON of the wrong shape) neither _parse_task_attrs nor _parse_task_content
\* raises, and each returns None in every malformed case.
C11_ParsersNeverRaise ==
  \A i \in DOMAIN store :
    LET a == _parse_task_attrs(store[i].attrs)
        c == _parse_task_content(store[i].content)
    IN /\ ~a.raised
       /\ ~c.raised
       /\ MalformedAttrs(store[i].attrs) => a = Returned(None)
       /\ MalformedContent(store[i].content) => c = Returned(None)

\* the fully sorted sequence of the rows the scalar filters admit, payloads degraded
ScalarAdmitted(q) ==
  LET rows == FetchAll(store, q)
  IN SortResults([i \in DOMAIN rows |->
                    BuildTask(rows[i], AttrsOfRow(rows[i]),
                              _parse_task_content(rows[i].content).value)], q)

\* C12: a query_tasks call with no attribute filter completes without raising whatever
\* payloads the rows carry, and returns (page by page) every row the scalar filters
\* admit, a malformed row included with its attrs or content set to None.
C12_MalformedRowNeverAborts ==
  (pc # "idle" /\ ~AnyAttrFilter(query)) =>
    /\ pc = "returned"
    /\ result = Paginate(ScalarAdmitted(query), query)

(***************************************************************************)
(* TaskContent.to_plain_text: the loops that collect text_parts and the    *)
(* final "".join.                                                          *)
(***************************************************************************)
\* the Python string "\n"
NewLine == <<"\n">>

\* sep.join(parts)
RECURSIVE Join(_, _)
Join(sep, parts) ==
  IF parts = <<>> THEN <<>>
  ELSE IF Len(parts) = 1 THEN parts[1]
  ELSE parts[1] \o sep \o Join(sep, Tail(parts))

\* for link_text in node.content: text_parts.append(link_text.text)
RECURSIVE LinkLoop(_, _)
LinkLoop(label, text_parts) ==
  IF label = <<>> THEN text_parts
  ELSE LinkLoop(Tail(label), Append(text_parts, Head(label).text))

\* for node in paragraph.content: one branch per node class
RECURSIVE NodeLoop(_, _)
NodeLoop(nodes, text_parts) ==
  IF nodes = <<>> THEN text_parts
  ELSE LET node == Head(nodes)
       IN NodeLoop(Tail(nodes),
                   IF node.type = "text" THEN Append(text_parts, node.text)
                   ELSE IF node.type = "link" THEN LinkLoop(node.content, text_parts)
                   ELSE IF node.type = "hard_break" THEN Append(text_parts, NewLine)
                   ELSE text_parts)

\* for paragraph in self.root
RECURSIVE ParagraphLoop(_, _)
ParagraphLoop(root, text_parts) ==
  IF root = <<>> THEN text_parts
  ELSE ParagraphLoop(Tail(root), NodeLoop(Head(root).content, text_parts))

\* variant of to_plain_text: " ".join(text_parts)
to_plain_text_SpaceJoined(root) == Join(<<" ">>, ParagraphLoop(root, <<>>))

\* TaskContent.to_plain_text
to_plain_text(root) == Join(<<>>, ParagraphLoop(root, <<>>))

(***************************************************************************)
(* The documents to_plain_text is applied to.                              *)
(***************************************************************************)
\* most paragraphs of a document
MaxParagraphs == 2
\* most nodes of a paragraph
MaxNodes == 2
\* most text nodes of a link label
MaxLabel == 2

Texts == {<<>>, <<"a">>, <<"b", " ">>}

\* the sequences of at most n elements of S
SeqsUpTo(S, n) == UNION {[1..k -> S] : k \in 0..n}

InlineNodes ==
  {TextNode(t) : t \in Texts}
  \cup {LinkNode(<<"url">>, l) :
          l \in SeqsUpTo({TextNode(<<"a">>), TextNode(<<"c">>)}, MaxLabel)}
  \cup {HardBreakNode}

\* text "Review the ", link labelled "TICKET-123", text " today"
TicketDocument ==
  <<ParagraphNode(<<TextNode(<<"Review", " ", "the", " ">>),
                    LinkNode(<<"url">>, <<TextNode(<<"TICKET-123">>)>>),
                    TextNode(<<" ", "today">>)>>)>>

\* paragraphs a multi-paragraph document is made of: empty, text and hard break,
\* a link whose label has two texts
SampleParagraphs ==
  {ParagraphNode(<<>>),
   ParagraphNode(<<TextNode(<<"b", " ">>), HardBreakNode>>),
   ParagraphNode(<<LinkNode(<<"url">>, <<TextNode(<<"a">>), TextNode(<<"c">>)>>)>>)}

\* every one-paragraph document of at most MaxNodes nodes, the documents of at most
\* MaxParagraphs sample paragraphs, and the documents of the task table
Documents ==
  {<<ParagraphNode(ns)>> : ns \in SeqsUpTo(InlineNodes, MaxNodes)}
  \cup SeqsUpTo(SampleParagraphs, MaxParagraphs)
  \cup {TicketDocument}
  \cup {Val(_parse_task_content(d).value) : d \in {Doc1, Doc2}}

FlattenInit ==
  /\ document \in Documents
  /\ plain = None
  /\ again = None
  /\ pc = "idle"
  /\ store = <<>>
  /\ query = TaskQuery
  /\ result = <<>>
  /\ ServiceAtRest
  /\ CallsAtRest

\* the first call of to_plain_text on the value
ToPlainText ==
  /\ pc = "idle"
  /\ plain' = Some(to_plain_text(document))
  /\ pc' = "returned"
  /\ UNCHANGED <<document, again, store, calls, query, result, service_vars>>

\* a further call on the same value
ToPlainTextAgain ==
  /\ pc = "returned"
  /\ again = None
  /\ again' = Some(to_plain_text(document))
  /\ UNCHANGED <<document, plain, pc, store, calls, query, result, service_vars>>

FlattenNext == ToPlainText \/ ToPlainTextAgain

FlattenSpec == FlattenInit /\ [][FlattenNext]_vars

\* what one inline node contributes to the flattened text
NodeText(n) ==
  IF n.type = "text" THEN n.text
  ELSE IF n.type = "link" THEN Concat([i \in DOMAIN n.content |-> n.content[i].text])
  ELSE NewLine

\* the flattened text of a document, paragraph by paragraph and node by node
Flattened(doc) ==
  Concat([p \in DOMAIN doc |->
            Concat([j \in DOMAIN doc[p].content |-> NodeText(doc[p].content[j])])])

\* C20: for every valid document to_plain_text returns the concatenation, in document
\* order and with no separator, of each text node's text, each link's label texts and
\* one "\n" per hard break; a repeated call on the same value returns the same string.
C20_FlatteningInOrder ==
  (pc = "returned" /\ \A p \in DOMAIN document : ValidParagraph(document[p])) =>
    /\ plain = Some(Flattened(document))
    /\ IsSome(again) => again = plain

\* C20 witness: "Review the " + link "TICKET-123" + " today" flattens to
\* "Review the TICKET-123 today", twice
C20_Witness ==
  /\ pc = "returned"
  /\ document = TicketDocument
  /\ plain = Some(<<"Review", " ", "the", " ", "TICKET-123", " ", "today">>)
  /\ again = plain

\* C20 witness: two paragraphs, a hard break and a two-text link label
C20_WitnessBreak ==
  /\ pc = "returned"
  /\ document = <<ParagraphNode(<<TextNode(<<"b", " ">>), HardBreakNode>>),
                  ParagraphNode(<<LinkNode(<<"url">>,
                                           <<TextNode(<<"a">>), TextNode(<<"c">>)>>)>>)>>
  /\ plain = Some(<<"b", " ", "\n", "a", "c">>)

(***************************************************************************)
(* Properties of query_tasks on the scalar columns and the content search. *)
(***************************************************************************)
\* C17: every task query_tasks returns with include_deleted=false has deleted = False
\* and every task it returns with include_done=false has done = False, whatever the
\* columns hold (0, 1 or NULL).
C17_DeletedDoneExcludedByDefault ==
  pc = "returned" =>
    \A i \in DOMAIN result :
      /\ ~query.include_deleted => result[i].deleted = FALSE
      /\ ~query.include_done => result[i].done = FALSE

\* the flattened text of a row's content, None when the payload gives no document
PlainTextOfRow(row) ==
  LET c == _parse_task_content(row.content).value
  IN IF IsSome(c) THEN Some(to_plain_text(Val(c))) ELSE None

\* C19: with only content_search=s set (s not empty), query_tasks returns exactly the
\* tasks that are not deleted, not done and whose flattened plain text contains s; a
\* string that occurs only in the serialized structure matches no task.
C19_ContentSearchOnFlattenedText ==
  (pc = "returned" /\ SetsOnly(query, "content_search")
                   /\ query.content_search # Some(<<>>)) =>
    \A i \in DOMAIN store :
      LET row == store[i]
          text == PlainTextOfRow(row)
      IN row.id \in Ids(result) <=>
           /\ SqlWhere(row, TaskQuery)
           /\ IsSome(text)
           /\ Contains(Val(text), Val(query.content_search))

(***************************************************************************)
(* The other TasksService operations, each from cursor.execute to return.  *)
(***************************************************************************)
\* " AND (deleted IS NULL OR deleted = 0)" / " AND (done IS NULL OR done = 0)"
SqlNotDeletedDone(row, include_deleted, include_done) ==
  /\ include_deleted \/ IsNone(row.deleted) \/ Val(row.deleted) = 0
  /\ include_done \/ IsNone(row.done) \/ Val(row.done) = 0

\* LIMIT limit OFFSET offset (a negative limit is no limit, a negative offset is 0)
SqlLimit(rows, limit, offset) ==
  LET start == Max(offset, 0)
      n == IF limit < 0 THEN Len(rows) ELSE limit
  IN SubSeq(rows, start + 1, Min(start + n, Len(rows)))

\* results[:limit]
PySliceTo(results, limit) ==
  SubSeq(results, 1, IF limit >= 0 THEN Min(limit, Len(results))
                     ELSE Max(Len(results) + limit, 0))

\* attrs->>'createdAt': NULL for NULL and for JSON without the key, an error for text
\* that is not JSON
JsonCreatedAt(attrs_json) ==
  IF attrs_json.kind = "null" THEN Returned(None)
  ELSE IF attrs_json.kind \in {"empty", "invalid_json"} THEN Raised("OperationalError")
  ELSE IF attrs_json.kind = "object" THEN Returned(attrs_json.obj.createdAt)
  ELSE Returned(None)

\* ORDER BY key ASC: NULL first, then ascending, ties in scan order
RECURSIVE SqlInsertAsc(_, _, _)
SqlInsertAsc(pairs, key, row) ==
  IF pairs = <<>> THEN <<<<key, row>>>>
  ELSE LET k == Head(pairs)[1]
       IN IF IsSome(k) /\ (IsNone(key) \/ Val(key) < Val(k))
          THEN <<<<key, row>>>> \o pairs
          ELSE <<Head(pairs)>> \o SqlInsertAsc(Tail(pairs), key, row)

RECURSIVE SqlOrderFrom(_, _, _)
SqlOrderFrom(pairs, rows, keys) ==
  IF rows = <<>> THEN [i \in DOMAIN pairs |-> pairs[i][2]]
  ELSE SqlOrderFrom(SqlInsertAsc(pairs, Head(keys), Head(rows)), Tail(rows), Tail(keys))

SqlOrderByAsc(rows, keys) == SqlOrderFrom(<<>>, rows, keys)

\* for row in cursor.fetchall(): results.append({... parsed attrs and content ...})
RECURSIVE AssembleLoop(_, _)
AssembleLoop(rows, results) ==
  IF rows = <<>> THEN Returned(results)
  ELSE LET row == Head(rows)
           attrs == _parse_task_attrs(row.attrs)
           content == _parse_task_content(row.content)
       IN IF attrs.raised THEN attrs
          ELSE IF content.raised THEN content
          ELSE AssembleLoop(Tail(rows),
                            Append(results, BuildTask(row, attrs.value, content.value)))

\* TasksService.search_tasks: the deleted and done clauses are commented out
search_tasks(rows, text, limit, offset) ==
  AssembleLoop(SqlLimit(SelectSeq(rows, LAMBDA r : Like(r.content, text)), limit, offset),
               <<>>)

\* TasksService.list_tasks
list_tasks(rows, limit, offset, include_deleted, include_done) ==
  LET admitted == SelectSeq(rows, LAMBDA r :
                    SqlNotDeletedDone(r, include_deleted, include_done))
      keys == [i \in DOMAIN admitted |-> JsonCreatedAt(admitted[i].attrs)]
  IN IF \E i \in DOMAIN keys : keys[i].raised THEN Raised("OperationalError")
     ELSE AssembleLoop(SqlLimit(SqlOrderByAsc(admitted,
                                              [i \in DOMAIN keys |-> keys[i].value]),
                                limit, offset), <<>>)

\* TasksService.get_tasks_by_note
get_tasks_by_note(rows, note_uuid, include_deleted, include_done) ==
  LET admitted == SelectSeq(rows, LAMBDA r :
                    /\ Like(r.content, note_uuid)
                    /\ SqlNotDeletedDone(r, include_deleted, include_done))
  IN AssembleLoop(SqlOrderByAsc(admitted, [i \in DOMAIN admitted |-> admitted[i].due]),
                  <<>>)

\* results.sort(key=lambda x: x["attrs"].<field>, reverse=...): stable
RECURSIVE InsertByAttr(_, _, _, _)
InsertByAttr(xs, x, field, reverse) ==
  IF xs = <<>> THEN <<x>>
  ELSE LET kx == Val(Val(x.attrs)[field])
           kh == Val(Val(Head(xs).attrs)[field])
       IN IF (IF reverse THEN kh < kx ELSE kx < kh)
          THEN <<x>> \o xs
          ELSE <<Head(xs)>> \o InsertByAttr(Tail(xs), x, field, reverse)

RECURSIVE SortByAttrFrom(_, _, _, _)
SortByAttrFrom(sorted, rest, field, reverse) ==
  IF rest = <<>> THEN sorted
  ELSE SortByAttrFrom(InsertByAttr(sorted, Head(rest), field, reverse), Tail(rest),
                      field, reverse)

SortByAttr(results, field, reverse) == SortByAttrFrom(<<>>, results, field, reverse)

\* the row loop of get_tasks_by_created_date and get_tasks_ordered_by_points: skip the
\* row without attrs or without the field, apply the inclusive range, append
RECURSIVE AttrLoop(_, _, _, _, _)
AttrLoop(rows, field, lo, hi, results) ==
  IF rows = <<>> THEN Returned(results)
  ELSE LET row == Head(rows)
           attrs == _parse_task_attrs(row.attrs)
           content == _parse_task_content(row.content)
       IN IF attrs.raised THEN attrs
          ELSE IF IsNone(attrs.value) \/ IsNone(Val(attrs.value)[field])
               THEN AttrLoop(Tail(rows), field, lo, hi, results)
          ELSE IF IsSome(lo) /\ Val(Val(attrs.value)[field]) < Val(lo)
               THEN AttrLoop(Tail(rows), field, lo, hi, results)
          ELSE IF IsSome(hi) /\ Val(Val(attrs.value)[field]) > Val(hi)
               THEN AttrLoop(Tail(rows), field, lo, hi, results)
          ELSE IF content.raised THEN content
          ELSE AttrLoop(Tail(rows), field, lo, hi,
                        Append(results, BuildTask(row, attrs.value, content.value)))

\* variant of get_tasks_by_created_date: the limit taken from the rows fetched,
\* before the range filter and the sort
get_tasks_by_created_date_LimitFirst(rows, start_date, end_date, limit, include_deleted, include_done) ==
  LET admitted == SelectSeq(rows, LAMBDA r :
                    /\ r.attrs.kind # "null"
                    /\ SqlNotDeletedDone(r, include_deleted, include_done))
      looped == AttrLoop(PySliceTo(admitted, limit), "created_at", start_date, end_date, <<>>)
  IN IF looped.raised THEN looped
     ELSE Returned(SortByAttr(looped.value, "created_at", TRUE))

\* TasksService.get_tasks_by_created_date
get_tasks_by_created_date(rows, start_date, end_date, limit, include_deleted, include_done) ==
  LET admitted == SelectSeq(rows, LAMBDA r :
                    /\ r.attrs.kind # "null"
                    /\ SqlNotDeletedDone(r, include_deleted, include_done))
      looped == AttrLoop(admitted, "created_at", start_date, end_date, <<>>)
  IN IF looped.raised THEN looped
     ELSE Returned(PySliceTo(SortByAttr(looped.value, "created_at", TRUE), limit))

\* TasksService.get_tasks_ordered_by_points
get_tasks_ordered_by_points(rows, limit, include_deleted, include_done, ascending) ==
  LET admitted == SelectSeq(rows, LAMBDA r :
                    /\ r.attrs.kind # "null"
                    /\ SqlNotDeletedDone(r, include_deleted, include_done))
      looped == AttrLoop(admitted, "points", None, None, <<>>)
  IN IF looped.raised THEN looped
     ELSE Returned(PySliceTo(SortByAttr(looped.value, "points", ~ascending), limit))

\* variant of ShouldInclude: "urgent" and "important" do not exclude the other flag
ShouldInclude_OtherFlagAllowed(attrs, priority_filter) ==
  LET flags == FlagsOf(attrs)
      has_urgent == PyIn("U", flags)
      has_important == PyIn("I", flags)
  IN IF priority_filter = "urgent" THEN has_urgent
     ELSE IF priority_filter = "important" THEN has_important
     ELSE IF priority_filter = "both" THEN has_urgent /\ has_important
     ELSE IF priority_filter = "none" THEN ~has_urgent /\ ~has_important
     ELSE FALSE

\* the should_include decision of get_tasks_by_priority_flags
ShouldInclude(attrs, priority_filter) ==
  LET flags == FlagsOf(attrs)
      has_urgent == PyIn("U", flags)
      has_important == PyIn("I", flags)
  IN IF priority_filter = "urgent" THEN has_urgent /\ ~has_important
     ELSE IF priority_filter = "important" THEN has_important /\ ~has_urgent
     ELSE IF priority_filter = "both" THEN has_urgent /\ has_important
     ELSE IF priority_filter = "none" THEN ~has_urgent /\ ~has_important
     ELSE FALSE

RECURSIVE PriorityLoop(_, _, _)
PriorityLoop(rows, priority_filter, results) ==
  IF rows = <<>> THEN Returned(results)
  ELSE LET row == Head(rows)
           attrs == _parse_task_attrs(row.attrs)
           content == _parse_task_content(row.content)
       IN IF attrs.raised THEN attrs
          ELSE IF ~ShouldInclude(attrs.value, priority_filter)
               THEN PriorityLoop(Tail(rows), priority_filter, results)
          ELSE IF content.raised THEN content
          ELSE PriorityLoop(Tail(rows), priority_filter,
                            Append(results, BuildTask(row, attrs.value, content.value)))

\* TasksService.get_tasks_by_priority_flags
get_tasks_by_priority_flags(rows, priority_filter, limit, include_deleted, include_done) ==
  LET admitted == SelectSeq(rows, LAMBDA r :
                    SqlNotDeletedDone(r, include_deleted, include_done))
      looped == PriorityLoop(admitted, priority_filter, <<>>)
  IN IF looped.raised THEN looped
     ELSE Returned(PySliceTo(looped.value, limit))

(***************************************************************************)
(* The task operations called one at a time on an unchanging tasks table.  *)
(***************************************************************************)
\* no call is in progress
NoCall == [op |-> "none"]

\* the limits a modelled call passes
Limits == (1..MaxLimit) \cup {DefaultLimit}

TaskOpsInit ==
  /\ store \in Stores
  /\ pc = "idle"
  /\ query = NoCall
  /\ result = <<>>
  /\ FlattenAtRest
  /\ CallsAtRest
  /\ ServiceAtRest

\* the call ends: its value, or the exception it raised
Complete(call, r) ==
  /\ query' = call
  /\ IF r.raised
     THEN pc' = "raised" /\ result' = <<>> /\ error' = Some(r.error)
     ELSE pc' = "returned" /\ result' = r.value /\ error' = None
  /\ UNCHANGED <<store, calls, flatten_vars, notes, db_file, connections, statements>>

SearchTasks ==
  /\ pc = "idle"
  /\ \E text \in {<<>>, <<"TICKET">>, <<"paragraph">>}, limit \in Limits, offset \in 0..1 :
    Complete([op |-> "search_tasks", query |-> text, limit |-> limit, offset |-> offset],
             search_tasks(store, text, limit, offset))

ListTasks ==
  /\ pc = "idle"
  /\ \E limit \in Limits, offset \in 0..1, include_deleted \in BOOLEAN, include_done \in BOOLEAN :
    Complete([op |-> "list_tasks", limit |-> limit, offset |-> offset,
              include_deleted |-> include_deleted, include_done |-> include_done],
             list_tasks(store, limit, offset, include_deleted, include_done))

GetTasksByNote ==
  /\ pc = "idle"
  /\ \E note_uuid \in {<<"url">>, <<"Task">>, <<"n1">>},
     include_deleted \in BOOLEAN, include_done \in BOOLEAN :
    Complete([op |-> "get_tasks_by_note", note_uuid |-> note_uuid,
              include_deleted |-> include_deleted, include_done |-> include_done],
             get_tasks_by_note(store, note_uuid, include_deleted, include_done))

GetTasksByCreatedDate ==
  /\ pc = "idle"
  /\ \E start_date \in {None, Some(1)}, end_date \in {None, Some(1)}, limit \in Limits,
     include \in BOOLEAN :
    Complete([op |-> "get_tasks_by_created_date", start_date |-> start_date,
              end_date |-> end_date, limit |-> limit,
              include_deleted |-> include, include_done |-> include],
             get_tasks_by_created_date(store, start_date, end_date, limit, include, include))

GetTasksOrderedByPoints ==
  /\ pc = "idle"
  /\ \E limit \in Limits, include \in BOOLEAN, ascending \in BOOLEAN :
    Complete([op |-> "get_tasks_ordered_by_points", limit |-> limit,
              include_deleted |-> include, include_done |-> include,
              ascending |-> ascending],
             get_tasks_ordered_by_points(store, limit, include, include, ascending))

GetTasksByPriorityFlags ==
  /\ pc = "idle"
  /\ \E priority_filter \in {"urgent", "important", "both", "none"}, limit \in Limits,
     include \in BOOLEAN :
    Complete([op |-> "get_tasks_by_priority_flags", priority_filter |-> priority_filter,
              limit |-> limit, include_deleted |-> include, include_done |-> include],
             get_tasks_by_priority_flags(store, priority_filter, limit, include, include))

\* the caller takes the value or the exception
TaskOpsDone ==
  /\ pc \in {"returned", "raised"}
  /\ pc' = "idle"
  /\ query' = NoCall
  /\ result' = <<>>
  /\ error' = None
  /\ UNCHANGED <<store, calls, flatten_vars, notes, db_file, connections, statements>>

TaskOpsNext ==
  \/ SearchTasks
  \/ ListTasks
  \/ GetTasksByNote
  \/ GetTasksByCreatedDate
  \/ GetTasksOrderedByPoints
  \/ GetTasksByPriorityFlags
  \/ TaskOpsDone

TaskOpsSpec == TaskOpsInit /\ [][TaskOpsNext]_vars

(***************************************************************************)
(* The database file and the connections DatabaseConnection hands out.     *)
(* db_file is "absent" (no file at db_path), "amplenote" (the cache        *)
(* database), "foreign" (a SQLite file without the Amplenote tables) or    *)
(* "modified" (a statement has written to it).                             *)
(***************************************************************************)
\* most rows of the notes table
MaxNotes == 2
\* most connections known at once: those left open by earlier calls and the call's own
MaxConnections == 2

\* the attributes of a DatabaseConnection instance
DatabaseConnection == {"settings", "get_connection"}

\* self.db_connection.<name>: attribute lookup on the injected instance
GetAttr(obj, name) == IF name \in obj THEN Returned(name) ELSE Raised("AttributeError")

\* variant of get_connection: sqlite3.connect(db_path), read-write
get_connection_ReadWrite(file) ==
  IF file = "absent" THEN Raised("FileNotFoundError")
  ELSE Returned([mode |-> "rw", open |-> TRUE])

\* DatabaseConnection.get_connection
get_connection(file) ==
  IF file = "absent" THEN Raised("FileNotFoundError")
  ELSE Returned([mode |-> "ro", open |-> TRUE])

\* conn.close()
Close(conn) == [conn EXCEPT !.open = FALSE]

\* the statements the operations execute
Select(table) == [kind |-> "SELECT", table |-> table, malformed |-> FALSE]
SelectMatch(malformed) == [kind |-> "SELECT", table |-> "notes_search_index", malformed |-> malformed]
CreateTable == [kind |-> "CREATE TABLE", table |-> "test_table", malformed |-> FALSE]

\* cursor.execute(statement) on a connection to the file: what it raises and what the
\* file is afterwards
Execute(conn, statement, file) ==
  IF statement.kind # "SELECT"
  THEN IF conn.mode = "ro"
       THEN [outcome |-> Raised("OperationalError"), file |-> file]
       ELSE [outcome |-> Returned(TRUE), file |-> "modified"]
  ELSE IF file = "foreign" \/ statement.malformed
       THEN [outcome |-> Raised("OperationalError"), file |-> file]
       ELSE [outcome |-> Returned(TRUE), file |-> file]

\* the statements of a call in order, up to the first that raises; n counts them
RECURSIVE ExecuteAll(_, _, _, _)
ExecuteAll(conn, todo, file, n) ==
  IF todo = <<>> THEN [outcome |-> Returned(TRUE), file |-> file, n |-> n]
  ELSE LET e == Execute(conn, Head(todo), file)
       IN IF e.outcome.raised THEN [outcome |-> e.outcome, file |-> e.file, n |-> n + 1]
          ELSE ExecuteAll(conn, Tail(todo), e.file, n + 1)

\* a service method: acquire through the named attribute, execute, process the rows
\* (body), close, return.  conn.close() is the last statement before return and is not
\* in a finally block, so an exception leaves the connection open.
ServiceCall(method, todo, body) ==
  LET attr == GetAttr(DatabaseConnection, method)
      conn == get_connection(db_file)
      run == ExecuteAll(conn.value, todo, db_file, 0)
  IN IF attr.raised
     THEN [outcome |-> attr, conns |-> connections, stmts |-> 0, file |-> db_file]
     ELSE IF conn.raised
     THEN [outcome |-> conn, conns |-> connections, stmts |-> 0, file |-> db_file]
     ELSE IF run.outcome.raised
     THEN [outcome |-> run.outcome, conns |-> Append(connections, conn.value),
           stmts |-> run.n, file |-> run.file]
     ELSE IF body.raised
     THEN [outcome |-> body, conns |-> Append(connections, conn.value),
           stmts |-> run.n, file |-> run.file]
     ELSE [outcome |-> body, conns |-> Append(connections, Close(conn.value)),
           stmts |-> run.n, file |-> run.file]

(***************************************************************************)
(* The notes tables and the NotesService queries.                          *)
(***************************************************************************)
Note(rowid, remote_uuid, local_uuid, name, text, updated_at) ==
  [rowid |-> rowid, remote_uuid |-> remote_uuid, local_uuid |-> local_uuid,
   name |-> name, text |-> text, updated_at |-> updated_at]

\* the rows a notes table is drawn from, in rowid order; local_uuid is a plain TEXT
\* column (no UNIQUE constraint), and the last row shares its local_uuid with row 2
NoteTable ==
  << Note(1, "uuid-1", "local-uuid-1", <<"Project", " ", "Planning">>,
          <<"project", " ", "planning", " ", "note">>, 2),
     Note(2, "uuid-2", "local-uuid-2", <<"Meeting", " ", "Notes">>,
          <<"Important", " ", "meeting">>, 3),
     Note(3, "uuid-3", "local-uuid-3", <<"Ideas">>, <<"Random", " ", "ideas">>, 1),
     Note(4, "uuid-4", "local-uuid-2", <<"Meeting", " ", "Notes">>, <<"meeting">>, 4) >>

\* the note_references table: edges between local uuids, one of them to no note
NoteReferenceTable ==
  << [local_uuid |-> "local-uuid-1", referenced_uuid |-> "local-uuid-2"],
     [local_uuid |-> "local-uuid-2", referenced_uuid |-> "local-uuid-3"],
     [local_uuid |-> "local-uuid-3", referenced_uuid |-> "local-uuid-9"] >>

NoteStores ==
  UNION {{[rows |-> [j \in 1..n |-> NoteTable[p[j]]], note_references |-> NoteReferenceTable] :
            p \in Picks(1, Len(NoteTable), n)} : n \in 0..MaxNotes}

\* ASCII case folding, as LIKE and the FTS tokenizer apply it
Fold(piece) ==
  CASE piece = "Project" -> "project"
    [] piece = "Planning" -> "planning"
    [] piece = "Meeting" -> "meeting"
    [] piece = "Notes" -> "notes"
    [] piece = "Ideas" -> "ideas"
    [] piece = "Important" -> "important"
    [] piece = "Random" -> "random"
    [] OTHER -> piece

FoldAll(text) == [i \in DOMAIN text |-> Fold(text[i])]

\* the tokens the FTS index holds for a column
Tokens(text) == {Fold(text[i]) : i \in DOMAIN text} \ {" "}

\* snippet(...): the column with the matched tokens between '[' and ']'
Snippet(text, term) ==
  Concat([i \in DOMAIN text |->
            IF Fold(text[i]) = Fold(term) THEN <<"[", text[i], "]">> ELSE <<text[i]>>])

\* NotesService.search_notes, from fetchall to return
search_notes(rows, term, limit) ==
  LET matched == SelectSeq(rows, LAMBDA n : Fold(term) \in Tokens(n.name) \cup Tokens(n.text))
      fetched == SqlLimit(matched, limit, 0)
  IN [i \in DOMAIN fetched |->
        [uuid |-> fetched[i].remote_uuid, name |-> fetched[i].name,
         snippet |-> IF Fold(term) \in Tokens(fetched[i].name)
                     THEN Snippet(fetched[i].name, term)
                     ELSE Snippet(fetched[i].text, term)]]

\* the dict get_note_by_uuid and get_note_by_name return for a row
NoteDict(n) ==
  [remote_uuid |-> n.remote_uuid, local_uuid |-> n.local_uuid, name |-> n.name,
   text |-> n.text]

\* NotesService.get_note_by_uuid, from fetchone to return
get_note_by_uuid(rows, uuid) ==
  LET matched == SelectSeq(rows, LAMBDA n : n.remote_uuid = uuid \/ n.local_uuid = uuid)
  IN IF matched = <<>>
     THEN [error |-> <<"Note with UUID ", uuid, " not found">>]
     ELSE NoteDict(Head(matched))

\* NotesService.get_note_by_name, from fetchone to return
get_note_by_name(rows, name) ==
  LET matched == SelectSeq(rows, LAMBDA n : Contains(FoldAll(n.name), FoldAll(name)))
  IN IF matched = <<>>
     THEN [error |-> <<"Note with name containing '">> \o name \o <<"' not found">>]
     ELSE NoteDict(Head(matched))

\* the BINARY collation of the names of the table
NameRank(name) ==
  CASE name[1] = "Ideas" -> 1
    [] name[1] = "Meeting" -> 2
    [] name[1] = "Project" -> 3
    [] OTHER -> 4

\* NotesService.list_notes, from fetchall to return
list_notes(rows, limit, offset) ==
  LET fetched == SqlLimit(SqlOrderByAsc(rows, [i \in DOMAIN rows |-> Some(NameRank(rows[i].name))]),
                          limit, offset)
  IN [i \in DOMAIN fetched |->
        [remote_uuid |-> fetched[i].remote_uuid, local_uuid |-> fetched[i].local_uuid,
         name |-> fetched[i].name]]

\* NotesService.get_recently_modified_notes, from fetchall to return
get_recently_modified_notes(rows, limit) ==
  LET fetched == SqlLimit(SqlOrderByAsc(rows, [i \in DOMAIN rows |-> Some(0 - rows[i].updated_at)]),
                          limit, 0)
  IN [i \in DOMAIN fetched |->
        [remote_uuid |-> fetched[i].remote_uuid, local_uuid |-> fetched[i].local_uuid,
         name |-> fetched[i].name, updated_at |-> fetched[i].updated_at]]

\* note_references nr LEFT JOIN notes n ON <key> = n.local_uuid: one row per matching
\* note, one row with a NULL name when no note matches
LeftJoinName(rows, key) ==
  LET matched == SelectSeq(rows, LAMBDA n : n.local_uuid = key)
  IN IF matched = <<>> THEN <<[uuid |-> key, name |-> None]>>
     ELSE [i \in DOMAIN matched |-> [uuid |-> key, name |-> Some(matched[i].name)]]

\* NotesService.get_note_references, from the first fetchall to return
get_note_references(db, uuid) ==
  LET incoming == SelectSeq(db.note_references, LAMBDA nr : nr.referenced_uuid = uuid)
      outgoing == SelectSeq(db.note_references, LAMBDA nr : nr.local_uuid = uuid)
  IN [referenced_by |->
        Concat([i \in DOMAIN incoming |-> LeftJoinName(db.rows, incoming[i].local_uuid)]),
      references |->
        Concat([i \in DOMAIN outgoing |-> LeftJoinName(db.rows, outgoing[i].referenced_uuid)])]

(***************************************************************************)
(* The services as the container wires them: NotesService and TasksService *)
(* each hold a DatabaseConnection; every method is one call.  The query    *)
(* variable holds the call, result its value, error its exception.         *)
(***************************************************************************)
DefaultSearchLimit == 10

\* the MATCH expressions a call passes: terms, and one the FTS parser rejects
MatchExpressions ==
  {[term |-> t, malformed |-> FALSE] : t \in {"project", "Meeting", "zzz"}}
  \cup {[term |-> "(", malformed |-> TRUE]}

\* the dicts the query_tasks tool is called with
ToolQueries ==
  {[TaskQuery EXCEPT !.limit = l, !.offset = o] :
     l \in {LimitFloor - 1, LimitFloor, MaxLimit, LimitCeiling, LimitCeiling + 1},
     o \in {0 - 1, 0, MaxOffset}}

ServiceInit ==
  /\ store \in {<<>>, <<TaskTable[1], TaskTable[12]>>}
  /\ notes \in NoteStores
  /\ db_file \in {"absent", "amplenote", "foreign"}
  /\ connections = <<>>
  /\ statements = 0
  /\ error = None
  /\ pc = "idle"
  /\ query = NoCall
  /\ result = <<>>
  /\ FlattenAtRest
  /\ CallsAtRest

\* the call ends with the outcome r of its steps
End(call, r) ==
  /\ Len(connections) < MaxConnections
  /\ query' = call
  /\ connections' = r.conns
  /\ statements' = r.stmts
  /\ db_file' = r.file
  /\ IF r.outcome.raised
     THEN pc' = "raised" /\ result' = <<>> /\ error' = Some(r.outcome.error)
     ELSE pc' = "returned" /\ result' = r.outcome.value /\ error' = None
  /\ UNCHANGED <<store, calls, notes, flatten_vars>>

NotesSearchNotes ==
  /\ pc = "idle"
  /\ \E m \in MatchExpressions, limit \in {1, DefaultSearchLimit} :
    End([op |-> "search_notes", query |-> m, limit |-> limit],
        ServiceCall("get_connection", <<SelectMatch(m.malformed)>>,
                    Returned(search_notes(notes.rows, m.term, limit))))

NotesGetNoteByUuid ==
  /\ pc = "idle"
  /\ \E uuid \in {"uuid-1", "local-uuid-2", "nonexistent-uuid"} :
    End([op |-> "get_note_by_uuid", uuid |-> uuid],
        ServiceCall("get_connection", <<Select("notes")>>,
                    Returned(get_note_by_uuid(notes.rows, uuid))))

NotesGetNoteByName ==
  /\ pc = "idle"
  /\ \E name \in {<<"meeting">>, <<"Nonexistent">>, <<>>} :
    End([op |-> "get_note_by_name", name |-> name],
        ServiceCall("get_connection", <<Select("notes")>>,
                    Returned(get_note_by_name(notes.rows, name))))

NotesListNotes ==
  /\ pc = "idle"
  /\ \E limit \in {1, DefaultLimit}, offset \in 0..1 :
    End([op |-> "list_notes", limit |-> limit, offset |-> offset],
        ServiceCall("get_connection", <<Select("notes")>>,
                    Returned(list_notes(notes.rows, limit, offset))))

NotesGetRecentlyModifiedNotes ==
  /\ pc = "idle"
  /\ \E limit \in {1, DefaultLimit} :
    End([op |-> "get_recently_modified_notes", limit |-> limit],
        ServiceCall("get_connection", <<Select("notes")>>,
                    Returned(get_recently_modified_notes(notes.rows, limit))))

NotesGetNoteReferences ==
  /\ pc = "idle"
  /\ \E uuid \in {"local-uuid-2", "local-uuid-3", "nonexistent-uuid"} :
    End([op |-> "get_note_references", uuid |-> uuid],
        ServiceCall("get_connection", <<Select("note_references"), Select("note_references")>>,
                    Returned(get_note_references(notes, uuid))))

\* every TasksService method starts with self.db_connection.get_readonly_connection()
TasksSearchTasks ==
  /\ pc = "idle"
  /\ \E text \in {<<"TICKET">>} :
    End([op |-> "search_tasks", query |-> text, limit |-> DefaultLimit, offset |-> 0],
        ServiceCall("get_readonly_connection", <<Select("tasks")>>,
                    search_tasks(store, text, DefaultLimit, 0)))

TasksListTasks ==
  /\ pc = "idle"
  /\ \E include \in BOOLEAN :
    End([op |-> "list_tasks", limit |-> DefaultLimit, offset |-> 0,
         include_deleted |-> include, include_done |-> include],
        ServiceCall("get_readonly_connection", <<Select("tasks")>>,
                    list_tasks(store, DefaultLimit, 0, include, include)))

TasksGetTasksByNote ==
  /\ pc = "idle"
  /\ \E note_uuid \in {<<"url">>} :
    End([op |-> "get_tasks_by_note", note_uuid |-> note_uuid,
         include_deleted |-> FALSE, include_done |-> FALSE],
        ServiceCall("get_readonly_connection", <<Select("tasks")>>,
                    get_tasks_by_note(store, note_uuid, FALSE, FALSE)))

TasksGetTasksByCreatedDate ==
  /\ pc = "idle"
  /\ \E start_date \in {None, Some(1)} :
    End([op |-> "get_tasks_by_created_date", start_date |-> start_date, end_date |-> None,
         limit |-> DefaultLimit, include_deleted |-> FALSE, include_done |-> FALSE],
        ServiceCall("get_readonly_connection", <<Select("tasks")>>,
                    get_tasks_by_created_date(store, start_date, None, DefaultLimit,
                                              FALSE, FALSE)))

TasksGetTasksOrderedByPoints ==
  /\ pc = "idle"
  /\ \E ascending \in BOOLEAN :
    End([op |-> "get_tasks_ordered_by_points", limit |-> DefaultLimit,
         include_deleted |-> FALSE, include_done |-> FALSE, ascending |-> ascending],
        ServiceCall("get_readonly_connection", <<Select("tasks")>>,
                    get_tasks_ordered_by_points(store, DefaultLimit, FALSE, FALSE, ascending)))

TasksGetTasksByPriorityFlags ==
  /\ pc = "idle"
  /\ \E priority_filter \in {"urgent", "none"} :
    End([op |-> "get_tasks_by_priority_flags", priority_filter |-> priority_filter,
         limit |-> DefaultLimit, include_deleted |-> FALSE, include_done |-> FALSE],
        ServiceCall("get_readonly_connection", <<Select("tasks")>>,
                    get_tasks_by_priority_flags(store, priority_filter, DefaultLimit,
                                                FALSE, FALSE)))

TasksQueryTasks ==
  /\ pc = "idle"
  /\ \E q \in {TaskQuery, [TaskQuery EXCEPT !.include_deleted = TRUE]} :
    End([op |-> "query_tasks", query |-> q],
        ServiceCall("get_readonly_connection", <<Select("tasks")>>, query_tasks(store, q)))

\* TaskQuery(**query): pydantic validation of the declared constraints
ValidateTaskQuery(data) ==
  IF ValidPagination(data) THEN Returned(data) ELSE Raised("ValidationError")

\* the query_tasks tool of MCPApp: build the TaskQuery, then call the service
ToolQueryTasks ==
  /\ pc = "idle"
  /\ \E data \in ToolQueries :
    LET task_query == ValidateTaskQuery(data)
    IN End([op |-> "tool_query_tasks", query |-> data],
           IF task_query.raised
           THEN [outcome |-> task_query, conns |-> connections, stmts |-> 0,
                 file |-> db_file]
           ELSE ServiceCall("get_readonly_connection", <<Select("tasks")>>,
                            query_tasks(store, task_query.value)))

\* a caller of get_connection executes a write statement on the connection it was
\* handed, and closes it
AttemptWrite ==
  /\ pc = "idle"
  /\ LET conn == get_connection(db_file)
         e == Execute(conn.value, CreateTable, db_file)
     IN End([op |-> "attempt_write"],
            IF conn.raised
            THEN [outcome |-> conn, conns |-> connections, stmts |-> 0, file |-> db_file]
            ELSE [outcome |-> e.outcome, conns |-> Append(connections, Close(conn.value)),
                  stmts |-> 1, file |-> e.file])

\* the caller takes the value or the exception; closed connections are forgotten, a
\* connection left open stays open
ServiceDone ==
  /\ pc \in {"returned", "raised"}
  /\ pc' = "idle"
  /\ query' = NoCall
  /\ result' = <<>>
  /\ error' = None
  /\ statements' = 0
  /\ connections' = SelectSeq(connections, LAMBDA c : c.open)
  /\ UNCHANGED <<store, calls, notes, db_file, flatten_vars>>

ServiceNext ==
  \/ NotesSearchNotes
  \/ NotesGetNoteByUuid
  \/ NotesGetNoteByName
  \/ NotesListNotes
  \/ NotesGetRecentlyModifiedNotes
  \/ NotesGetNoteReferences
  \/ TasksSearchTasks
  \/ TasksListTasks
  \/ TasksGetTasksByNote
  \/ TasksGetTasksByCreatedDate
  \/ TasksGetTasksOrderedByPoints
  \/ TasksGetTasksByPriorityFlags
  \/ TasksQueryTasks
  \/ ToolQueryTasks
  \/ AttemptWrite
  \/ ServiceDone

ServiceSpec == ServiceInit /\ [][ServiceNext]_vars

NotesOps ==
  {"search_notes", "get_note_by_uuid", "get_note_by_name", "list_notes",
   "get_recently_modified_notes", "get_note_references"}

TasksOps ==
  {"search_tasks", "list_tasks", "get_tasks_by_note", "get_tasks_by_created_date",
   "get_tasks_ordered_by_points", "get_tasks_by_priority_flags", "query_tasks"}

\* C13: when a service call has ended, by return or by exception, every connection it
\* opened is closed; no connection is left open after a call.
C13_ConnectionClosedOnEveryExit ==
  pc \in {"returned", "raised"} =>
    \A i \in DOMAIN connections : ~connections[i].open

\* no row of the notes table matches the identifier or name of the call
NoNoteMatches ==
  IF query.op = "get_note_by_uuid"
  THEN \A i \in DOMAIN notes.rows :
         notes.rows[i].remote_uuid # query.uuid /\ notes.rows[i].local_uuid # query.uuid
  ELSE \A i \in DOMAIN notes.rows :
         ~Contains(FoldAll(notes.rows[i].name), FoldAll(query.name))

\* C14: get_note_by_uuid and get_note_by_name return None, and neither raise nor return
\* a record, when no note row matches the identifier or name.
C14_NotFoundReturnsNone ==
  (pc # "idle" /\ query.op \in {"get_note_by_uuid", "get_note_by_name"}
               /\ db_file = "amplenote" /\ NoNoteMatches) =>
    (pc = "returned" /\ result = None)

\* C15: when the database file does not exist, every TasksService and NotesService
\* operation fails with FileNotFoundError and no other error, before any statement.
C15_MissingFileIsFileNotFound ==
  (pc # "idle" /\ query.op \in NotesOps \cup TasksOps /\ db_file = "absent") =>
    (pc = "raised" /\ error = Some("FileNotFoundError") /\ statements = 0)

\* C16: no step of any service operation changes the tasks table, the notes tables or
\* the database file; every connection handed out is read-only, and a write attempted
\* on one fails.
C16_NoWritePath ==
  [][/\ store' = store
     /\ notes' = notes
     /\ db_file' = db_file
     /\ \A i \in DOMAIN connections' : connections'[i].mode = "ro"
     /\ (query'.op = "attempt_write" /\ db_file # "absent") =>
          (pc' = "raised" /\ error' = Some("OperationalError"))]_vars

\* C16 witness: a write attempted on a connection to the existing database has failed
C16_Witness ==
  /\ pc = "raised"
  /\ query.op = "attempt_write"
  /\ db_file = "amplenote"
  /\ statements = 1
  /\ error = Some("OperationalError")

\* C16 witness: a notes operation has returned rows over its own connection
C16_WitnessRead ==
  /\ pc = "returned"
  /\ query.op = "list_notes"
  /\ Len(result) = MaxNotes
  /\ Len(connections) = 1

\* the pagination the claim calls invalid
InvalidPagination(q) == q.limit < 1 \/ q.limit > 1000 \/ q.offset < 0

\* C18: a query_tasks request whose limit is below 1 or above 1000, or whose offset is
\* negative, fails with a validation error; no connection is acquired and no statement
\* is executed.
C18_InvalidPaginationRejectedFirst ==
  [][(pc = "idle" /\ pc' # "idle" /\ query'.op = "tool_query_tasks"
                  /\ InvalidPagination(query'.query)) =>
       /\ pc' = "raised"
       /\ error' = Some("ValidationError")
       /\ connections' = connections
       /\ statements' = 0]_vars

\* C18 witness: a request with limit 1001 has been rejected
C18_Witness ==
  /\ pc = "raised"
  /\ query.op = "tool_query_tasks"
  /\ query.query.limit = LimitCeiling + 1
  /\ error = Some("ValidationError")
  /\ connections = <<>>

\* C18 witness: a request with a negative offset has been rejected
C18_WitnessOffset ==
  /\ pc = "raised"
  /\ query.op = "tool_query_tasks"
  /\ query.query.offset < 0
  /\ query.query.limit = LimitFloor
  /\ error = Some("ValidationError")

(***************************************************************************)
(* The parsers on their own inputs: a store of one row whose attrs or      *)
(* content column holds a payload given member by member or node by node,  *)
(* read by the same query_tasks calls.                                     *)
(***************************************************************************)
\* paragraphs of a stored document: two that validate, and one each with a node of
\* an unknown type at paragraph level, an inline node of an unknown type, a link
\* without its label, a link whose label holds a hard break
ParseParagraphs ==
  {ParagraphNode(<<TextNode(<<"a">>)>>),
   ParagraphNode(<<LinkNode(<<"url">>, <<TextNode(<<"c">>)>>), HardBreakNode>>),
   [type |-> "bullet_list_item", content |-> <<TextNode(<<"a">>)>>],
   ParagraphNode(<<TextNode(<<"a">>), [type |-> "image", href |-> <<"url">>]>>),
   ParagraphNode(<<[type |-> "link", href |-> <<"url">>], TextNode(<<"b", " ">>)>>),
   ParagraphNode(<<LinkNode(<<"url">>, <<TextNode(<<"a">>), HardBreakNode>>)>>)}

ContentPayloads ==
  {ContentNull, ContentEmpty, ContentInvalidJson, ContentNonArray}
  \cup {ContentJson(d) : d \in SeqsUpTo(ParseParagraphs, MaxParagraphs)}

\* the keys of an attrs object by the declared type of their field, and a key no
\* field declares
NumberKeys ==
  {"createdAt", "completedAt", "startAt", "points", "victoryValue", "streakCount",
   "created_at", "streak_count"}
TextKeys == {"duration", "repeat"}
UnknownKeys == {"colour"}

NumberValues ==
  {JsonNull, JsonInt(1), JsonFloat(2), JsonStr(<<"2">>), JsonStr(<<"1", "0">>),
   JsonStr(<<"x">>), JsonStr(<<>>), JsonStr(<<"1", "x">>), JsonList(<<>>)}
TextValues == {JsonNull, JsonStr(<<"PT30M">>), JsonInt(30), JsonList(<<>>)}
FlagsValues == {JsonNull, JsonStr(<<"U", "I">>), JsonInt(1)}
ReferencesValues ==
  {JsonNull, JsonList(<<>>), JsonList(<<JsonStr(<<"n1">>)>>),
   JsonList(<<JsonStr(<<"n1">>), JsonInt(2)>>), JsonStr(<<"n1">>)}

\* a well-typed object every other payload is compared with
PlainMembers ==
  [points |-> JsonInt(1), flags |-> JsonStr(<<"U">>), startAt |-> JsonInt(2)]

\* the objects of one member, and the well-typed object with one more member
AttrsMembers ==
  LET One(k, v) == [x \in {k} |-> v]
      Single == {One(k, v) : k \in NumberKeys, v \in NumberValues}
                \cup {One(k, v) : k \in TextKeys, v \in TextValues}
                \cup {One("flags", v) : v \in FlagsValues}
                \cup {One("references", v) : v \in ReferencesValues}
                \cup {One(k, v) : k \in UnknownKeys,
                                  v \in NumberValues \cup TextValues}
  IN Single
     \cup {[x \in DOMAIN PlainMembers \cup DOMAIN m |->
              IF x \in DOMAIN m THEN m[x] ELSE PlainMembers[x]] : m \in Single}
     \cup {PlainMembers, <<>>}

ParseStores ==
  {<<Row(1, Some(0), Some(0), Some(2), PayloadJson(m), Doc2)>> : m \in AttrsMembers}
  \cup {<<Row(1, Some(0), Some(0), Some(2), PayloadJson(PlainMembers), c)>> :
          c \in ContentPayloads}

ParseInit ==
  /\ store \in ParseStores
  /\ pc = "idle"
  /\ query = TaskQuery
  /\ result = <<>>
  /\ FlattenAtRest
  /\ CallsAtRest
  /\ ServiceAtRest

ParseSpec == ParseInit /\ [][Next]_vars

LegalTypes == {"paragraph", "text", "link", "hard_break"}

\* a node, or a node below it, has a type outside the four, or is a link without
\* its label sequence
RECURSIVE HasIllegalNode(_)
HasIllegalNode(n) ==
  \/ n.type \notin LegalTypes
  \/ n.type = "link" /\ "content" \notin DOMAIN n
  \/ /\ "content" \in DOMAIN n
     /\ \E i \in DOMAIN n.content : HasIllegalNode(n.content[i])

IllegalContent(content_json) ==
  /\ content_json.kind = "json"
  /\ \E i \in DOMAIN content_json.doc : HasIllegalNode(content_json.doc[i])

\* C21: a content payload in which any node has a type other than paragraph, text,
\* link, hard_break, or in which a link lacks its label, parses to None as a whole
\* (never to a document without the offending node), and the row's task is still
\* returned, with content None.
C21_DocumentParseAllOrNothing ==
  \A i \in DOMAIN store :
    IllegalContent(store[i].content) =>
      /\ _parse_task_content(store[i].content) = Returned(None)
      /\ pc = "returned" =>
           /\ \A k \in DOMAIN result :
                result[k].id = store[i].id => result[k].content = None
           /\ (query.offset = 0 /\ i \in Matching(query)) => store[i].id \in Ids(result)

\* C21 witness: a document of a valid paragraph followed by one with an unknown node
\* type; the call returned the task, content None
C21_Witness ==
  /\ pc = "returned"
  /\ Len(store) = 1
  /\ store[1].content =
       ContentJson(<<ParagraphNode(<<TextNode(<<"a">>)>>),
                     ParagraphNode(<<TextNode(<<"a">>),
                                     [type |-> "image", href |-> <<"url">>]>>)>>)
  /\ Len(result) = 1
  /\ result[1].id = store[1].id
  /\ result[1].content = None

\* C21 witness: the same for a link that lacks its label
C21_WitnessLink ==
  /\ pc = "returned"
  /\ Len(store) = 1
  /\ store[1].content =
       ContentJson(<<ParagraphNode(<<[type |-> "link", href |-> <<"url">>],
                                     TextNode(<<"b", " ">>)>>)>>)
  /\ Len(result) = 1
  /\ result[1].content = None

\* the declared type of a key's field admits the JSON type of the value
WellTyped(k, j) ==
  \/ j.t = "null"
  \/ k \in NumberKeys /\ j.t \in {"int", "float"}
  \/ k \in TextKeys \cup {"flags"} /\ j.t = "str"
  \/ k = "references" /\ j.t = "list" /\ \A i \in DOMAIN j.items : j.items[i].t = "str"
  \/ k \in UnknownKeys

\* the object without the keys no field declares
KnownOnly(members) == [k \in DOMAIN members \ UnknownKeys |-> members[k]]

\* C22: an attrs object with unknown keys parses, those keys ignored; an object in
\* which a known key carries a value of the wrong type (a string where an integer or
\* float field is declared) parses to None as a whole, never to attributes with that
\* field skipped or converted.
C22_AttrsParsePolicy ==
  \A i \in DOMAIN store :
    store[i].attrs.kind = "json_object" =>
      LET members == store[i].attrs.members
          parsed == _parse_task_attrs(store[i].attrs)
      IN /\ ~parsed.raised
         /\ parsed = _parse_task_attrs(PayloadJson(KnownOnly(members)))
         /\ (\A k \in DOMAIN members : WellTyped(k, members[k])) => parsed.value # None
         /\ (\E k \in DOMAIN members : ~WellTyped(k, members[k])) => parsed.value = None

(***************************************************************************)
(* Reference resolution against the edge table.                            *)
(***************************************************************************)
\* the in-edges and out-edges of a note in the note_references table, in table order
InEdges(x) == SelectSeq(notes.note_references, LAMBDA nr : nr.referenced_uuid = x)
OutEdges(x) == SelectSeq(notes.note_references, LAMBDA nr : nr.local_uuid = x)

\* the names the notes table gives for a local uuid
NamesOf(u) == {Some(notes.rows[i].name) : i \in {j \in DOMAIN notes.rows : notes.rows[j].local_uuid = u}}

\* an entry carries the endpoint and a name of it, null when no note row matches
EntryFor(entry, u) ==
  /\ entry.uuid = u
  /\ entry.name \in (IF NamesOf(u) = {} THEN {None} ELSE NamesOf(u))

RowOf(task) == store[CHOOSE i \in DOMAIN store : store[i].id = task.id]

\* the position of a returned task's row in the store
PositionOf(task) == CHOOSE i \in DOMAIN store : store[i].id = task.id

\* C24: search_tasks excludes deleted and completed tasks by default: it returns no
\* task whose deleted column is 1 and no task whose done column is 1.
C24_SearchExcludesDeletedDone ==
  (pc = "returned" /\ query.op = "search_tasks") =>
    \A k \in DOMAIN result :
      /\ RowOf(result[k]).deleted # Some(1)
      /\ RowOf(result[k]).done # Some(1)

\* a due column that holds no date: NULL or 0
DueUnset(row) == IsNone(row.due) \/ row.due = Some(0)

\* C26: every task query_tasks returns with has_due_date=true has a due date, every
\* task it returns with has_due_date=false has due None, and the filter treats a row
\* whose due column is 0 exactly like a row whose due column is NULL.
C26_DuePresenceConsistent ==
  (pc = "returned" /\ IsSome(query.has_due_date)) =>
    /\ \A k \in DOMAIN result :
         IF Val(query.has_due_date) THEN result[k].due # None ELSE result[k].due = None
    /\ \A i \in DOMAIN store :
         DueUnset(store[i]) =>
           (SqlWhere(store[i], query) <=> SqlWhere([store[i] EXCEPT !.due = None], query))

\* C27: the sort phase of query_tasks is stable for every sort key and both
\* directions: two returned tasks with equal sort keys (absent keys included) are in
\* the relative order in which the store returned their rows.
C27_SortStable ==
  pc = "returned" =>
    \A i, j \in DOMAIN result :
      (i < j /\ SortKey(result[i], query) = SortKey(result[j], query)) =>
        PositionOf(result[i]) < PositionOf(result[j])

\* C27 witness: a descending sort by points returned two tasks of equal points
\* next to each other
C27_Witness ==
  /\ pc = "returned"
  /\ query.sort_by = Some("points")
  /\ query.sort_descending
  /\ \E i \in DOMAIN result :
       /\ i + 1 \in DOMAIN result
       /\ SortKey(result[i], query) = Num(1)
       /\ SortKey(result[i + 1], query) = Num(1)

\* C27 witness: an ascending sort by created returned two tasks without the key
C27_WitnessAbsent ==
  /\ pc = "returned"
  /\ query.sort_by = Some("created")
  /\ ~query.sort_descending
  /\ Len(result) >= 2
  /\ result[1].attrs = None
  /\ IsSome(result[2].attrs) /\ Val(result[2].attrs).created_at = None

\* the rows get_tasks_by_created_date has to choose from: not excluded, attrs parsed,
\* created_at present and within the inclusive bounds
InCreatedRange(call) ==
  {i \in DOMAIN store :
     /\ call.include_deleted \/ store[i].deleted # Some(1)
     /\ call.include_done \/ store[i].done # Some(1)
     /\ IsSome(AttrsOfRow(store[i]))
     /\ IsSome(Val(AttrsOfRow(store[i])).created_at)
     /\ IsSome(call.start_date) =>
          Val(Val(AttrsOfRow(store[i])).created_at) >= Val(call.start_date)
     /\ IsSome(call.end_date) =>
          Val(Val(AttrsOfRow(store[i])).created_at) <= Val(call.end_date)}

CreatedAt(task) == Val(Val(task.attrs).created_at)

\* C28: get_tasks_by_created_date(start, end, limit) returns, in non-increasing
\* created_at order, the `limit` most recently created of the non-excluded tasks
\* whose attrs parse and whose created_at is present and within [start, end]; the
\* limit is applied after filtering and sorting.
C28_CreatedDateNewestFirst ==
  (pc = "returned" /\ query.op = "get_tasks_by_created_date") =>
    LET eligible == InCreatedRange(query)
    IN /\ Len(result) = Min(query.limit, Cardinality(eligible))
       /\ \A k \in DOMAIN result : PositionOf(result[k]) \in eligible
       /\ \A k, l \in DOMAIN result : k # l => result[k].id # result[l].id
       /\ \A k, l \in DOMAIN result : k < l => CreatedAt(result[k]) >= CreatedAt(result[l])
       /\ \A i \in eligible :
            store[i].id \notin Ids(result) =>
              \A k \in DOMAIN result :
                CreatedAt(result[k]) >= Val(Val(AttrsOfRow(store[i])).created_at)

\* C28 witness: limit 1 over two eligible rows; the later row is the newer and is the
\* one returned
C28_Witness ==
  /\ pc = "returned"
  /\ query.op = "get_tasks_by_created_date"
  /\ query.limit = 1
  /\ Cardinality(InCreatedRange(query)) >= 2
  /\ Len(result) = 1
  /\ PositionOf(result[1]) > 1
  /\ 1 \in InCreatedRange(query)

\* the query_tasks call with the same flags filter and inclusion settings
SameAsQuery(call) ==
  [TaskQuery EXCEPT !.flags_filter = Some(call.priority_filter),
                    !.include_deleted = call.include_deleted,
                    !.include_done = call.include_done,
                    !.limit = call.limit]

\* C29: get_tasks_by_priority_flags(f) and query_tasks(flags_filter=f) agree: with
\* equal inclusion settings and a limit that holds all matches, both return the same
\* set of tasks, tasks with absent attrs or absent flags included.
C29_PriorityFlagsAgreeWithQuery ==
  (pc # "idle" /\ query.op = "get_tasks_by_priority_flags" /\ query.limit >= Len(store)) =>
    LET q == query_tasks(store, SameAsQuery(query))
    IN /\ q.raised <=> pc = "raised"
       /\ pc = "returned" =>
            /\ Len(result) = Len(q.value)
            /\ \A k \in DOMAIN result : \E l \in DOMAIN q.value : q.value[l] = result[k]
            /\ \A l \in DOMAIN q.value : \E k \in DOMAIN result : q.value[l] = result[k]

\* C29 witness: "urgent" over a store holding a task flagged U and a task flagged
\* both I and U returned the first only
C29_Witness ==
  /\ pc = "returned"
  /\ query.op = "get_tasks_by_priority_flags"
  /\ query.priority_filter = "urgent"
  /\ query.limit >= Len(store)
  /\ \E i, j \in DOMAIN store :
       /\ FlagChars(store[i]) = {"U"}
       /\ FlagChars(store[j]) = {"I", "U"}
       /\ ~query.include_deleted
       /\ store[j].deleted = Some(0) /\ store[j].done = Some(0)
       /\ store[i].id \in Ids(result)
       /\ store[j].id \notin Ids(result)

\* C29 witness: "none" returned a task without attrs
C29_WitnessNoAttrs ==
  /\ pc = "returned"
  /\ query.op = "get_tasks_by_priority_flags"
  /\ query.priority_filter = "none"
  /\ query.limit >= Len(store)
  /\ \E k \in DOMAIN result : result[k].attrs = None

(***************************************************************************)
(* Several callers on the same service objects, each call taken statement  *)
(* by statement, while the owning application writes to the database.      *)
(* connections holds one slot per connection object a caller's local       *)
(* variable conn can refer to.                                             *)
(***************************************************************************)
\* the callers that use the services at once
MaxCallers == 2
Callers == 1..MaxCallers

\* the calls a caller makes
ConcurrentCalls ==
  {[op |-> "get_note_references", uuid |-> "local-uuid-2", limit |-> 0],
   [op |-> "get_note_by_uuid", uuid |-> "uuid-1", limit |-> 0],
   [op |-> "list_notes", uuid |-> "", limit |-> 1],
   [op |-> "query_tasks", uuid |-> "", limit |-> DefaultLimit]}

\* a caller between calls
NotCalling ==
  [pc |-> "idle", call |-> [op |-> "none", uuid |-> "", limit |-> 0], conn |-> 0,
   referenced_by |-> <<>>, value |-> None, error |-> None, seen |-> {}]

\* the edge tables the owning application moves between
EdgeTables ==
  {<<[local_uuid |-> "local-uuid-1", referenced_uuid |-> "local-uuid-2"],
     [local_uuid |-> "local-uuid-2", referenced_uuid |-> "local-uuid-3"]>>,
   <<[local_uuid |-> "local-uuid-2", referenced_uuid |-> "local-uuid-3"]>>,
   <<[local_uuid |-> "local-uuid-3", referenced_uuid |-> "local-uuid-2"]>>}

\* the states of the notes tables the owning application moves between
OwnerStores ==
  {[rows |-> <<NoteTable[1], NoteTable[2]>>, note_references |-> e] : e \in EdgeTables}

\* variant of ConnectionOf: one connection object kept on the service and shared
ConnectionOf_Shared(c) == 1

\* conn = self.db_connection.get_connection(): the object the call's local variable
\* refers to is its own
ConnectionOf(c) == c

\* the attribute of db_connection the method of a call acquires through
AcquiresThrough(call) ==
  IF call.op = "query_tasks" THEN "get_readonly_connection" ELSE "get_connection"

\* the table a call's first statement reads
FirstTable(call) == IF call.op = "get_note_references" THEN "note_references" ELSE "notes"

\* what a one-statement call returns from the rows fetched
ValueOf(call, db) ==
  IF call.op = "get_note_by_uuid" THEN get_note_by_uuid(db.rows, call.uuid)
  ELSE list_notes(db.rows, call.limit, 0)

\* cursor.execute on the connection object a slot holds
ExecuteOn(slot, statement) ==
  IF slot = None \/ ~Val(slot).open THEN Raised("ProgrammingError")
  ELSE Execute(Val(slot), statement, db_file).outcome

ConcurrentInit ==
  /\ store = <<>>
  /\ pc = "idle"
  /\ query = NoCall
  /\ result = <<>>
  /\ FlattenAtRest
  /\ notes \in OwnerStores
  /\ db_file \in {"absent", "amplenote", "foreign"}
  /\ connections = [c \in Callers |-> None]
  /\ statements = 0
  /\ error = None
  /\ calls = [c \in Callers |-> NotCalling]

\* a caller enters a service method: the connection is acquired
Call(c) ==
  /\ calls[c].pc = "idle"
  /\ \E call \in ConcurrentCalls :
       LET attr == GetAttr(DatabaseConnection, AcquiresThrough(call))
           conn == get_connection(db_file)
           entered == [NotCalling EXCEPT !.call = call, !.seen = {notes}]
       IN IF attr.raised
          THEN /\ calls' = [calls EXCEPT ![c] = [entered EXCEPT !.pc = "raised",
                                                                !.error = Some(attr.error)]]
               /\ UNCHANGED connections
          ELSE IF conn.raised
          THEN /\ calls' = [calls EXCEPT ![c] = [entered EXCEPT !.pc = "raised",
                                                                !.error = Some(conn.error)]]
               /\ UNCHANGED connections
          ELSE /\ calls' = [calls EXCEPT ![c] = [entered EXCEPT !.pc = "connected",
                                                                !.conn = ConnectionOf(c)]]
               /\ connections' = [connections EXCEPT ![ConnectionOf(c)] = Some(conn.value)]
  /\ UNCHANGED <<store, pc, query, result, flatten_vars, notes, db_file, statements, error>>

\* the first cursor.execute and fetchall of the call; a one-statement method then
\* closes the connection and returns
FirstStatement(c) ==
  /\ calls[c].pc = "connected"
  /\ LET me == calls[c]
         executed == ExecuteOn(connections[me.conn], Select(FirstTable(me.call)))
     IN IF executed.raised
        THEN /\ calls' = [calls EXCEPT ![c] = [me EXCEPT !.pc = "raised",
                                                         !.error = Some(executed.error)]]
             /\ UNCHANGED connections
        ELSE IF me.call.op = "get_note_references"
        THEN /\ calls' = [calls EXCEPT ![c] =
                            [me EXCEPT !.pc = "fetched",
                                       !.referenced_by =
                                          get_note_references(notes, me.call.uuid).referenced_by]]
             /\ UNCHANGED connections
        ELSE /\ calls' = [calls EXCEPT ![c] = [me EXCEPT !.pc = "returned",
                                                         !.value = Some(ValueOf(me.call, notes))]]
             /\ connections' = [connections EXCEPT ![me.conn] = Some(Close(Val(@)))]
  /\ UNCHANGED <<store, pc, query, result, flatten_vars, notes, db_file, statements, error>>

\* the second cursor.execute and fetchall of get_note_references, conn.close(), return
SecondStatement(c) ==
  /\ calls[c].pc = "fetched"
  /\ LET me == calls[c]
         executed == ExecuteOn(connections[me.conn], Select("note_references"))
     IN IF executed.raised
        THEN /\ calls' = [calls EXCEPT ![c] = [me EXCEPT !.pc = "raised",
                                                         !.error = Some(executed.error)]]
             /\ UNCHANGED connections
        ELSE /\ calls' = [calls EXCEPT ![c] =
                            [me EXCEPT !.pc = "returned",
                                       !.value =
                                          Some([referenced_by |-> me.referenced_by,
                                                references |->
                                                  get_note_references(notes, me.call.uuid).references])]]
             /\ connections' = [connections EXCEPT ![me.conn] = Some(Close(Val(@)))]
  /\ UNCHANGED <<store, pc, query, result, flatten_vars, notes, db_file, statements, error>>

\* the caller takes the value or the exception
Take(c) ==
  /\ calls[c].pc \in {"returned", "raised"}
  /\ calls' = [calls EXCEPT ![c] = NotCalling]
  /\ UNCHANGED <<store, pc, query, result, flatten_vars, service_vars>>

\* the owning application commits a change to the notes tables; seen records, for
\* each call in progress, the states the tables have had during the call
OwnerWrites ==
  /\ db_file = "amplenote"
  /\ \E db \in OwnerStores :
       /\ db # notes
       /\ notes' = db
       /\ calls' = [c \in Callers |->
                      IF calls[c].pc \in {"connected", "fetched"}
                      THEN [calls[c] EXCEPT !.seen = @ \cup {db}]
                      ELSE calls[c]]
  /\ UNCHANGED <<store, pc, query, result, flatten_vars, db_file, connections,
                 statements, error>>

ConcurrentNext ==
  \/ \E c \in Callers : Call(c)
  \/ \E c \in Callers : FirstStatement(c)
  \/ \E c \in Callers : SecondStatement(c)
  \/ \E c \in Callers : Take(c)
  \/ OwnerWrites

ConcurrentSpec == ConcurrentInit /\ [][ConcurrentNext]_vars

\* the outcome of the call made alone, as the only call, on the tables db
Alone(call, db) ==
  ServiceCall(AcquiresThrough(call),
              IF call.op = "get_note_references"
              THEN <<Select("note_references"), Select("note_references")>>
              ELSE <<Select(FirstTable(call))>>,
              Returned(IF call.op = "get_note_references"
                       THEN get_note_references(db, call.uuid)
                       ELSE ValueOf(call, db))).outcome

\* C25: calls are independent: with the store unchanged, the result of a service call
\* is the same whatever other calls ran before it or run interleaved with it on the
\* same service objects; no call reads or writes state left by another call.
C25_CallsIndependent ==
  \A c \in Callers :
    (calls[c].pc \in {"returned", "raised"} /\ Cardinality(calls[c].seen) = 1) =>
      LET alone == Alone(calls[c].call, CHOOSE db \in calls[c].seen : TRUE)
      IN IF alone.raised
         THEN calls[c].pc = "raised" /\ calls[c].error = Some(alone.error)
         ELSE calls[c].pc = "returned" /\ calls[c].value = Some(alone.value)

\* C25 witness: a reference lookup returned while another caller's lookup was
\* between its two statements, the tables unchanged for both
C25_Witness ==
  /\ calls[1].pc = "returned"
  /\ calls[1].call.op = "get_note_references"
  /\ Cardinality(calls[1].seen) = 1
  /\ calls[2].pc = "fetched"
  /\ calls[2].seen = calls[1].seen
  /\ Val(calls[1].value).referenced_by # <<>>

\* C25 witness: a call returned after an earlier call of the same caller had ended
\* with an exception and left its connection open
C25_WitnessAfter ==
  /\ calls[2].pc = "returned"
  /\ calls[2].call.op = "list_notes"
  /\ calls[1].pc = "raised"
  /\ calls[1].error = Some("AttributeError")

\* C30: a reference lookup reads one self-consistent snapshot: when the store is
\* modified while get_note_references(X) runs, referenced_by and references both
\* reflect one store state that existed during the call.
C30_ReferencesOneSnapshot ==
  \A c \in Callers :
    (calls[c].pc = "returned" /\ calls[c].call.op = "get_note_references") =>
      \E db \in calls[c].seen :
        calls[c].value = Some(get_note_references(db, calls[c].call.uuid))

====
